---- MODULE Spec2Model ----
(***************************************************************************)
(* Rules engine of n-r-ai (src/src/n_r_ai/core/rules.py).                  *)
(*                                                                         *)
(* A GameState is an immutable record; Environment.state holds the current *)
(* one and Environment.step replaces it by Rules.apply(state, action).     *)
(* Room identifiers and bag token names are strings; Python's ordering of  *)
(* those strings (sorted, _norm_edge) is modelled by StrRank.              *)
(* A Python dict is a function whose DOMAIN is the set of keys present.    *)
(***************************************************************************)
EXTENDS Integers, Sequences, FiniteSets, TLC

\* Number of Environment.step calls explored from an initial state.
MaxTurn == 1

\* Length of the games played with actions taken from legal_actions.
MaxLegalTurn == 3

\* ---------------------------------------------------------------------------
\* Python values
\* ---------------------------------------------------------------------------

\* The value None of an absent "to" / "noise_roll" parameter.
None == "None"

\* The absent "noise_edge" parameter (not a 2-element list or tuple).
NoEdge == << >>

\* Order of the strings used as room ids and token names (Python str <).
StrRank ==
  [x \in {"A", "ADULT", "B", "C", "D", "E", "F", "LARVA", "QUEEN"} |->
     CASE x = "A" -> 1 [] x = "ADULT" -> 2 [] x = "B" -> 3 [] x = "C" -> 4
       [] x = "D" -> 5 [] x = "E" -> 6 [] x = "F" -> 7 [] x = "LARVA" -> 8
       [] x = "QUEEN" -> 9]

\* sorted(S)[0] for a non-empty set of strings.
SortedFirst(S) == CHOOSE x \in S : \A y \in S : StrRank[x] <= StrRank[y]

\* dict.get(k, default)
Get(d, k, default) == IF k \in DOMAIN d THEN d[k] ELSE default

\* d[k] = v on a copy of d
Put(d, k, v) == [x \in (DOMAIN d) \cup {k} |-> IF x = k THEN v ELSE d[x]]

\* d.pop(k, None) on a copy of d
Pop(d, k) == [x \in (DOMAIN d) \ {k} |-> d[x]]

\* The empty dict {} .
EmptyDict == [x \in {} |-> 0]

\* max(a, b)
Max(a, b) == IF a >= b THEN a ELSE b

\* ---------------------------------------------------------------------------
\* Actions
\* ---------------------------------------------------------------------------

\* Action(type, params): params holds "to", "noise_edge" and "noise_roll";
\* a key that is absent is None (NoEdge for "noise_edge").
Action(type, to, noise_edge, noise_roll) ==
  [type |-> type, to |-> to, noise_edge |-> noise_edge,
   noise_roll |-> noise_roll]

\* Action(type) without parameters.
Plain(type) == Action(type, None, NoEdge, None)

\* Action(type, {"to": room})
Toward(type, room) == Action(type, room, NoEdge, None)

\* ---------------------------------------------------------------------------
\* GameState
\* ---------------------------------------------------------------------------

\* GameState(): the field defaults of the dataclass.
GameStateDefaults ==
  [turn |-> 0, phase |-> "PLAYER", player_room |-> "A",
   oxygen |-> 5, health |-> 5, ammo |-> 3,
   actions_in_turn |-> 0, life_support_active |-> TRUE,
   fires |-> {}, noise |-> EmptyDict, room_noise |-> EmptyDict, doors |-> {},
   round |-> 1, intruders |-> EmptyDict,
   event_deck |-> 10, bag_dev_count |-> 0, intruder_burn_last |-> 0,
   attack_deck |-> 10]

\* The fields Rules reads and writes that the dataclass does not declare:
\* a full magazine, an unjammed weapon, no wounds, no explicit event
\* deck, an empty bag, self-destruct not armed, game running.
LaterFieldDefaults ==
  [ammo_max |-> 3, event_deck_cards |-> << >>, bag |-> EmptyDict,
   weapon_jammed |-> FALSE, serious_wounds |-> 0,
   self_destruct_armed |-> FALSE, destruction_timer |-> 0,
   game_over |-> FALSE, win |-> FALSE]

\* The state GameState() gives, with every field Rules uses.
DefaultState == GameStateDefaults @@ LaterFieldDefaults

\* Phase
Phases == {"SETUP", "PLAYER", "ENEMY", "EVENT", "CLEANUP"}

\* ---------------------------------------------------------------------------
\* Environment state
\* ---------------------------------------------------------------------------

\* state: Environment.state, the field board apart.  board: state.board, an
\* immutable Board that every state.next(...) carries over unchanged.
\* act, prev: the action of the last step and the state it was applied to.
VARIABLES state, prev, act, board

vars == <<state, prev, act, board>>

\* ---------------------------------------------------------------------------
\* Board
\* ---------------------------------------------------------------------------

\* The default of GameState.board: the path A - B - C with a CONTROL room.
DefaultBoard ==
  [rooms |-> {"A", "B", "C"},
   edges |-> {<<"A", "B">>, <<"B", "C">>},
   room_types |->
     [r \in {"A", "B", "C"} |-> IF r = "B" THEN "CONTROL" ELSE "DEFAULT"]]

\* A board passed as GameState(board=Board(rooms, edges, room_types)): six
\* rooms, edges stored in sorted order with the cycle A-B-C-D, one room of
\* each type USE_ROOM acts on; "F" has no entry in room_types.
StationBoard ==
  [rooms |-> {"A", "B", "C", "D", "E", "F"},
   edges |-> {<<"A", "B">>, <<"B", "C">>, <<"C", "D">>, <<"A", "D">>,
              <<"D", "E">>, <<"E", "F">>},
   room_types |->
     [r \in {"A", "B", "C", "D", "E"} |->
        CASE r = "A" -> "FIRE_CONTROL" [] r = "B" -> "CONTROL"
          [] r = "C" -> "ARMORY" [] r = "D" -> "SURGERY"
          [] r = "E" -> "ENGINE"]]

\* The boards of the states explored.
Boards == {DefaultBoard, StationBoard}

\* state.board.rooms
BoardRooms == board.rooms

\* state.board.edges
BoardEdges == board.edges

\* state.board.room_types
BoardRoomTypes == board.room_types

\* Board.neighbors(r)
Neighbors(r) ==
  {e[2] : e \in {x \in BoardEdges : x[1] = r}} \cup
  {e[1] : e \in {x \in BoardEdges : x[2] = r}}

\* board.room_types.get(r)
RoomType(r) == Get(BoardRoomTypes, r, None)

\* ---------------------------------------------------------------------------
\* rules.py helpers
\* ---------------------------------------------------------------------------

\* Mutation: the pair is kept in the order given.
NormEdgeAsGiven(a, b) == <<a, b>>

\* _norm_edge(a, b): the pair in sorted order.
NormEdge(a, b) == IF StrRank[a] <= StrRank[b] THEN <<a, b>> ELSE <<b, a>>

\* _neighbors_open(state, room), as the set of rooms the list holds.
NeighborsOpen(s, room) ==
  {n \in Neighbors(room) : NormEdge(room, n) \notin s.doors}

\* Mutation: the exhausted deck is tested after the jam and crit tests.
AttackOutcomeJamFirst(attack_deck) ==
  IF attack_deck % 13 = 0 THEN "jam"
  ELSE IF attack_deck % 7 = 0 THEN "crit"
  ELSE IF attack_deck <= 0 THEN "miss"
  ELSE "hit"

\* _attack_outcome(attack_deck)
AttackOutcome(attack_deck) ==
  IF attack_deck <= 0 THEN "miss"
  ELSE IF attack_deck % 13 = 0 THEN "jam"
  ELSE IF attack_deck % 7 = 0 THEN "crit"
  ELSE "hit"

\* Mutation: the noise_roll override is ignored.
NoiseRollIgnoresOverride(a) == "corridor"

\* _noise_roll(state, action)
NoiseRoll(a) ==
  IF a.noise_roll \in {"corridor", "room"} THEN a.noise_roll ELSE "corridor"

\* Mutation: the trigger fires on every multiple of 5, 0 included.
LastBulletTriggerAtZero(v) == v % 5 = 0

\* _last_bullet_trigger(attack_deck_value)
LastBulletTrigger(v) == IF v > 0 THEN v % 5 = 0 ELSE FALSE

\* ---------------------------------------------------------------------------
\* Rules.legal_actions
\* ---------------------------------------------------------------------------

\* The orders in which a Python set of rooms can be iterated.
RECURSIVE Enumerations(_)
Enumerations(S) ==
  IF S = {} THEN {<< >>}
  ELSE UNION {{<<x>> \o q : q \in Enumerations(S \ {x})} : x \in S}

\* Mutation: movement is offered to every neighbour, doors ignored.
MoveOptionsThroughDoors(s, ord) ==
  [i \in 1..(2 * Len(ord)) |->
     IF i % 2 = 1 THEN Toward("MOVE", ord[(i + 1) \div 2])
     ELSE Toward("MOVE_CAUTIOUS", ord[i \div 2])]

\* Movement options: MOVE and MOVE_CAUTIOUS per open neighbour.
MoveOptions(s, ord) ==
  LET open == SelectSeq(ord, LAMBDA n : n \in NeighborsOpen(s, s.player_room))
  IN [i \in 1..(2 * Len(open)) |->
        IF i % 2 = 1 THEN Toward("MOVE", open[(i + 1) \div 2])
        ELSE Toward("MOVE_CAUTIOUS", open[i \div 2])]

\* Door actions: OPEN_DOOR on a closed edge, CLOSE_DOOR on an open one.
DoorOptions(s, ord) ==
  [i \in 1..Len(ord) |->
     IF NormEdge(s.player_room, ord[i]) \in s.doors
     THEN Toward("OPEN_DOOR", ord[i])
     ELSE Toward("CLOSE_DOOR", ord[i])]

\* Mutation: SHOOT and BURST are offered without looking at ammo.
CombatOptionsIgnoreAmmo(s) ==
  IF s.player_room \in DOMAIN s.intruders
  THEN <<Plain("MELEE")>> \o
       (IF ~s.weapon_jammed
        THEN <<Plain("SHOOT"), Plain("BURST")>> ELSE << >>)
  ELSE << >>

\* Combat actions.
CombatOptions(s) ==
  IF s.player_room \in DOMAIN s.intruders
  THEN <<Plain("MELEE")>> \o
       (IF s.ammo > 0 /\ ~s.weapon_jammed
        THEN <<Plain("SHOOT"), Plain("BURST")>> ELSE << >>)
  ELSE << >>

\* Mutation: ESCAPE is offered in every room.
RoomOptionsEscapeAnywhere(s) ==
  (IF RoomType(s.player_room) \in
        {"CONTROL", "ARMORY", "SURGERY", "ENGINE", "FIRE_CONTROL"}
   THEN <<Plain("USE_ROOM")>> ELSE << >>) \o <<Plain("ESCAPE")>>

\* Room actions.
RoomOptions(s) ==
  (IF RoomType(s.player_room) \in
        {"CONTROL", "ARMORY", "SURGERY", "ENGINE", "FIRE_CONTROL"}
   THEN <<Plain("USE_ROOM")>> ELSE << >>) \o
  (IF RoomType(s.player_room) = "ENGINE" THEN <<Plain("ESCAPE")>> ELSE << >>)

\* Mutation: END_PLAYER_PHASE is offered whatever actions_in_turn is.
PhaseOptionsAlways(s) == <<Plain("END_PLAYER_PHASE")>>

\* END_PLAYER_PHASE when no action is pending.
PhaseOptions(s) ==
  IF s.actions_in_turn = 0 THEN <<Plain("END_PLAYER_PHASE")>> ELSE << >>

\* Mutation: PASS is offered in every phase.
LegalActionsPassAnywhere(s, ord) ==
  (IF s.phase = "PLAYER"
   THEN MoveOptions(s, ord) \o DoorOptions(s, ord) \o CombatOptions(s) \o
        RoomOptions(s) \o <<Plain("PASS")>> \o PhaseOptions(s)
   ELSE <<Plain("PASS"), Plain("NEXT_PHASE")>>) \o <<Plain("NOOP")>>

\* Rules.legal_actions(state); ord is the order in which
\* board.neighbors(state.player_room) is iterated.
LegalActions(s, ord) ==
  (IF s.phase = "PLAYER"
   THEN MoveOptions(s, ord) \o DoorOptions(s, ord) \o CombatOptions(s) \o
        RoomOptions(s) \o <<Plain("PASS")>> \o PhaseOptions(s)
   ELSE <<Plain("NEXT_PHASE")>>) \o <<Plain("NOOP")>>

\* ---------------------------------------------------------------------------
\* Rules.apply
\* ---------------------------------------------------------------------------

\* state.next(turn=state.turn + 1): the result of NOOP and of every
\* rejected action.
NoopResult(s) == [s EXCEPT !.turn = s.turn + 1]

\* Mutation: the closed-door test is missing.
MoveRejectedIgnoresDoors(s, a) ==
  a.to = None \/ a.to \notin Neighbors(s.player_room)

\* MOVE / MOVE_CAUTIOUS is rejected: no destination, not a neighbour, or the
\* edge is closed.
MoveRejected(s, a) ==
  \/ a.to = None
  \/ a.to \notin Neighbors(s.player_room)
  \/ NormEdge(s.player_room, a.to) \in s.doors

\* Mutation: a nominated corridor is taken whether or not it is closed.
ChosenNoiseEdgeIgnoresDoors(s, a) ==
  IF Len(a.noise_edge) = 2
  THEN LET maybe_edge == NormEdge(a.noise_edge[1], a.noise_edge[2])
       IN IF maybe_edge \in BoardEdges THEN maybe_edge ELSE NoEdge
  ELSE NoEdge

\* The corridor a MOVE_CAUTIOUS nominates, NoEdge when absent, not a board
\* edge, or closed.
ChosenNoiseEdge(s, a) ==
  IF Len(a.noise_edge) = 2
  THEN LET maybe_edge == NormEdge(a.noise_edge[1], a.noise_edge[2])
       IN IF maybe_edge \in BoardEdges /\ maybe_edge \notin s.doors
          THEN maybe_edge ELSE NoEdge
  ELSE NoEdge

\* Mutation: the encounter check ignores the noise, every intruder-free
\* destination spawns.
EncounterSpawnAlways(s, to_room) == to_room \notin DOMAIN s.intruders

\* Encounter check: the destination holds no intruder and had room noise or
\* incident corridor noise at the start of the step.
EncounterSpawn(s, to_room) ==
  /\ to_room \notin DOMAIN s.intruders
  /\ \/ Get(s.room_noise, to_room, 0) >= 1
     \/ \E e \in DOMAIN s.noise :
          (e[1] = to_room \/ e[2] = to_room) /\ s.noise[e] >= 1

\* Mutation: only corridors whose first end is the room are cleared.
ClearIncidentOneSided(noise, room) ==
  [e \in {x \in DOMAIN noise : x[1] # room} |-> noise[e]]

\* new_noise without the corridors incident to room.
ClearIncident(noise, room) ==
  [e \in {x \in DOMAIN noise : ~(x[1] = room \/ x[2] = room)} |-> noise[e]]

\* A MOVE / MOVE_CAUTIOUS that is not rejected.
ApplyMove(s, a) ==
  LET to_room == a.to
      move_edge == NormEdge(s.player_room, to_room)
      noise_target == NoiseRoll(a)
      chosen == ChosenNoiseEdge(s, a)
      placed_noise ==
        IF noise_target = "corridor"
        THEN IF a.type = "MOVE"
             THEN Put(s.noise, move_edge, Get(s.noise, move_edge, 0) + 1)
             ELSE IF chosen # NoEdge
                  THEN Put(s.noise, chosen, Get(s.noise, chosen, 0) + 1)
                  ELSE s.noise
        ELSE s.noise
      placed_room ==
        IF noise_target = "room"
        THEN Put(s.room_noise, to_room, Get(s.room_noise, to_room, 0) + 1)
        ELSE s.room_noise
      spawn == EncounterSpawn(s, to_room)
  IN [s EXCEPT
        !.player_room = to_room,
        !.actions_in_turn = @ + 1,
        !.intruders = IF spawn THEN Put(@, to_room, 1) ELSE @,
        !.noise = IF spawn THEN ClearIncident(placed_noise, to_room)
                  ELSE placed_noise,
        !.room_noise = IF spawn THEN Pop(placed_room, to_room)
                       ELSE placed_room]

\* OPEN_DOOR / CLOSE_DOOR is rejected: no destination or not a neighbour.
DoorRejected(s, a) ==
  a.to = None \/ a.to \notin Neighbors(s.player_room)

\* An OPEN_DOOR / CLOSE_DOOR that is not rejected.
ApplyDoor(s, a) ==
  LET edge == NormEdge(s.player_room, a.to)
  IN IF a.type = "OPEN_DOOR"
     THEN IF edge \in s.doors
          THEN [s EXCEPT !.doors = @ \ {edge}, !.actions_in_turn = @ + 1]
          ELSE s
     ELSE IF edge \notin s.doors
          THEN [s EXCEPT !.doors = @ \cup {edge}, !.actions_in_turn = @ + 1]
          ELSE s

\* Mutation: the intruder is kept with the HP left, also at 0 or below.
DamageKeepsTheDead(intruders, room, outcome) ==
  IF outcome \in {"hit", "crit"}
  THEN LET dmg == IF outcome = "hit" THEN 1 ELSE 2
       IN Put(intruders, room, intruders[room] - dmg)
  ELSE intruders

\* Damage of an attack outcome on the intruder in room: hit 1, crit 2;
\* the intruder is removed at hp <= 0.
Damage(intruders, room, outcome) ==
  IF outcome \in {"hit", "crit"}
  THEN LET dmg == IF outcome = "hit" THEN 1 ELSE 2
           hp == intruders[room] - dmg
       IN IF hp <= 0 THEN Pop(intruders, room) ELSE Put(intruders, room, hp)
  ELSE intruders

\* Mutation: the attack deck is decremented without the floor at 0.
ApplyShootDeckUnfloored(s) ==
  IF s.player_room \in DOMAIN s.intruders /\ s.ammo > 0 /\ ~s.weapon_jammed
  THEN LET outcome == AttackOutcome(s.attack_deck)
           ammo_spent == IF LastBulletTrigger(s.attack_deck) THEN 1 ELSE 0
       IN [s EXCEPT
             !.intruders = Damage(@, s.player_room, outcome),
             !.ammo = Max(s.ammo - ammo_spent, 0),
             !.attack_deck = s.attack_deck - 1,
             !.weapon_jammed = IF outcome = "jam" THEN TRUE ELSE @,
             !.actions_in_turn = @ + 1]
  ELSE s

\* SHOOT
ApplyShoot(s) ==
  IF s.player_room \in DOMAIN s.intruders /\ s.ammo > 0 /\ ~s.weapon_jammed
  THEN LET outcome == AttackOutcome(s.attack_deck)
           ammo_spent == IF LastBulletTrigger(s.attack_deck) THEN 1 ELSE 0
       IN [s EXCEPT
             !.intruders = Damage(@, s.player_room, outcome),
             !.ammo = Max(s.ammo - ammo_spent, 0),
             !.attack_deck = Max(s.attack_deck - 1, 0),
             !.weapon_jammed = IF outcome = "jam" THEN TRUE ELSE @,
             !.actions_in_turn = @ + 1]
  ELSE s

\* Mutation: BURST spends ammo on the last-bullet trigger only, as SHOOT.
ApplyBurstOnTrigger(s) == ApplyShoot(s)

\* BURST
ApplyBurst(s) ==
  IF s.player_room \in DOMAIN s.intruders /\ s.ammo > 0 /\ ~s.weapon_jammed
  THEN LET outcome == AttackOutcome(s.attack_deck)
       IN [s EXCEPT
             !.intruders = Damage(@, s.player_room, outcome),
             !.ammo = s.ammo - 1,
             !.attack_deck = Max(s.attack_deck - 1, 0),
             !.weapon_jammed = IF outcome = "jam" THEN TRUE ELSE @,
             !.actions_in_turn = @ + 1]
  ELSE s

\* Mutation: the serious wound is added without the serious_wounds < 3 test.
ApplyMeleeWoundsUncapped(s) ==
  IF s.player_room \in DOMAIN s.intruders
  THEN LET hp == s.intruders[s.player_room] - 1
           health == IF s.health > 0 THEN s.health - 1 ELSE s.health
       IN [s EXCEPT
             !.intruders = IF hp <= 0 THEN Pop(@, s.player_room)
                           ELSE Put(@, s.player_room, hp),
             !.health = health,
             !.serious_wounds = IF health \in {3, 1} THEN @ + 1 ELSE @,
             !.actions_in_turn = @ + 1]
  ELSE s

\* MELEE
ApplyMelee(s) ==
  IF s.player_room \in DOMAIN s.intruders
  THEN LET hp == s.intruders[s.player_room] - 1
           health == IF s.health > 0 THEN s.health - 1 ELSE s.health
       IN [s EXCEPT
             !.intruders = IF hp <= 0 THEN Pop(@, s.player_room)
                           ELSE Put(@, s.player_room, hp),
             !.health = health,
             !.serious_wounds =
               IF health \in {3, 1} /\ @ < 3 THEN @ + 1 ELSE @,
             !.actions_in_turn = @ + 1]
  ELSE s

\* Mutation: the ARMORY refills the ammo and leaves the weapon jammed.
ApplyUseRoomKeepsJam(s) ==
  LET room_type == RoomType(s.player_room)
  IN CASE room_type = "CONTROL" ->
            [s EXCEPT !.life_support_active = ~@, !.actions_in_turn = @ + 1]
       [] room_type = "ARMORY" ->
            [s EXCEPT !.ammo = IF @ < s.ammo_max THEN s.ammo_max ELSE @,
                      !.actions_in_turn = @ + 1]
       [] room_type = "SURGERY" ->
            LET health == IF s.health < 5 THEN s.health + 1 ELSE s.health
                wounds == IF s.serious_wounds > 0 THEN s.serious_wounds - 1
                          ELSE s.serious_wounds
            IN IF wounds # s.serious_wounds \/ health # s.health
               THEN [s EXCEPT !.health = health, !.serious_wounds = wounds,
                              !.actions_in_turn = @ + 1]
               ELSE s
       [] room_type = "ENGINE" ->
            IF ~s.self_destruct_armed
            THEN [s EXCEPT !.self_destruct_armed = TRUE,
                           !.destruction_timer = 3,
                           !.actions_in_turn = @ + 1]
            ELSE s
       [] room_type = "FIRE_CONTROL" ->
            [s EXCEPT !.fires = @ \ {s.player_room},
                      !.actions_in_turn = @ + 1]
       [] OTHER -> s

\* Mutation: SURGERY heals 1 health without the cap at 5.
ApplyUseRoomSurgeryUncapped(s) ==
  LET room_type == RoomType(s.player_room)
  IN CASE room_type = "CONTROL" ->
            [s EXCEPT !.life_support_active = ~@, !.actions_in_turn = @ + 1]
       [] room_type = "ARMORY" ->
            [s EXCEPT !.ammo = IF @ < s.ammo_max THEN s.ammo_max ELSE @,
                      !.weapon_jammed = FALSE,
                      !.actions_in_turn = @ + 1]
       [] room_type = "SURGERY" ->
            LET health == s.health + 1
                wounds == IF s.serious_wounds > 0 THEN s.serious_wounds - 1
                          ELSE s.serious_wounds
            IN IF wounds # s.serious_wounds \/ health # s.health
               THEN [s EXCEPT !.health = health, !.serious_wounds = wounds,
                              !.actions_in_turn = @ + 1]
               ELSE s
       [] room_type = "ENGINE" ->
            IF ~s.self_destruct_armed
            THEN [s EXCEPT !.self_destruct_armed = TRUE,
                           !.destruction_timer = 3,
                           !.actions_in_turn = @ + 1]
            ELSE s
       [] room_type = "FIRE_CONTROL" ->
            [s EXCEPT !.fires = @ \ {s.player_room},
                      !.actions_in_turn = @ + 1]
       [] OTHER -> s

\* USE_ROOM
ApplyUseRoom(s) ==
  LET room_type == RoomType(s.player_room)
  IN CASE room_type = "CONTROL" ->
            [s EXCEPT !.life_support_active = ~@, !.actions_in_turn = @ + 1]
       [] room_type = "ARMORY" ->
            [s EXCEPT !.ammo = IF @ < s.ammo_max THEN s.ammo_max ELSE @,
                      !.weapon_jammed = FALSE,
                      !.actions_in_turn = @ + 1]
       [] room_type = "SURGERY" ->
            LET health == IF s.health < 5 THEN s.health + 1 ELSE s.health
                wounds == IF s.serious_wounds > 0 THEN s.serious_wounds - 1
                          ELSE s.serious_wounds
            IN IF wounds # s.serious_wounds \/ health # s.health
               THEN [s EXCEPT !.health = health, !.serious_wounds = wounds,
                              !.actions_in_turn = @ + 1]
               ELSE s
       [] room_type = "ENGINE" ->
            IF ~s.self_destruct_armed
            THEN [s EXCEPT !.self_destruct_armed = TRUE,
                           !.destruction_timer = 3,
                           !.actions_in_turn = @ + 1]
            ELSE s
       [] room_type = "FIRE_CONTROL" ->
            [s EXCEPT !.fires = @ \ {s.player_room},
                      !.actions_in_turn = @ + 1]
       [] OTHER -> s

\* ESCAPE
ApplyEscape(s) ==
  [s EXCEPT !.game_over = TRUE, !.win = TRUE, !.actions_in_turn = @ + 1]

\* The if / elif chain over the action type (MOVE ... PASS).
ActionEffect(s, a) ==
  CASE a.type \in {"MOVE", "MOVE_CAUTIOUS"} -> ApplyMove(s, a)
    [] a.type \in {"OPEN_DOOR", "CLOSE_DOOR"} -> ApplyDoor(s, a)
    [] a.type = "SHOOT" -> ApplyShoot(s)
    [] a.type = "BURST" -> ApplyBurst(s)
    [] a.type = "MELEE" -> ApplyMelee(s)
    [] a.type = "USE_ROOM" -> ApplyUseRoom(s)
    [] a.type = "ESCAPE" -> ApplyEscape(s)
    [] OTHER -> s

\* Mutation: the end-of-turn applies the hazards and keeps the counter.
EndOfTurnKeepsCount(a, w) ==
  IF a.type = "PASS" \/ w.actions_in_turn >= 2
  THEN [w EXCEPT
          !.oxygen = IF ~w.life_support_active /\ @ > 0 THEN @ - 1 ELSE @,
          !.health = IF w.player_room \in w.fires /\ @ > 0 THEN @ - 1 ELSE @]
  ELSE w

\* Mutation: the end-of-turn sequence runs on PASS only.
EndOfTurnOnPassOnly(a, w) ==
  IF a.type = "PASS"
  THEN [w EXCEPT
          !.oxygen = IF ~w.life_support_active /\ @ > 0 THEN @ - 1 ELSE @,
          !.health = IF w.player_room \in w.fires /\ @ > 0 THEN @ - 1 ELSE @,
          !.actions_in_turn = 0]
  ELSE w

\* Mutation: the hazards are applied without the > 0 guards.
EndOfTurnNoFloor(a, w) ==
  IF a.type = "PASS" \/ w.actions_in_turn >= 2
  THEN [w EXCEPT
          !.oxygen = IF ~w.life_support_active THEN @ - 1 ELSE @,
          !.health = IF w.player_room \in w.fires THEN @ - 1 ELSE @,
          !.actions_in_turn = 0]
  ELSE w

\* End-of-turn processing: hazards and the reset of actions_in_turn.
EndOfTurn(a, w) ==
  IF a.type = "PASS" \/ w.actions_in_turn >= 2
  THEN [w EXCEPT
          !.oxygen = IF ~w.life_support_active /\ @ > 0 THEN @ - 1 ELSE @,
          !.health = IF w.player_room \in w.fires /\ @ > 0 THEN @ - 1 ELSE @,
          !.actions_in_turn = 0]
  ELSE w

\* END_PLAYER_PHASE is rejected: not in PLAYER phase, or an action is pending.
EndPlayerPhaseRejected(s) == s.phase # "PLAYER" \/ s.actions_in_turn # 0

\* Mutation: intruder_burn_last counts every intruder, burning or not.
EndPlayerPhaseCountsAll(w) ==
  [w EXCEPT
     !.phase = "ENEMY",
     !.health = IF w.player_room \in DOMAIN w.intruders /\ @ > 0
                THEN @ - 1 ELSE @,
     !.intruder_burn_last = Cardinality(DOMAIN w.intruders)]

\* END_PLAYER_PHASE: enter ENEMY and apply the ENEMY effects.
EndPlayerPhase(w) ==
  [w EXCEPT
     !.phase = "ENEMY",
     !.health = IF w.player_room \in DOMAIN w.intruders /\ @ > 0
                THEN @ - 1 ELSE @,
     !.intruder_burn_last = Cardinality((DOMAIN w.intruders) \cap w.fires)]

\* Mutation: NEXT_PHASE is accepted in PLAYER phase too.
NextPhaseAccepted(s) == FALSE

\* NEXT_PHASE is rejected in PLAYER phase.
NextPhaseRejected(s) == s.phase = "PLAYER"

\* Mutation: EVENT is followed by PLAYER, CLEANUP is skipped.
CycleSkipsCleanup(p) ==
  CASE p = "PLAYER" -> "ENEMY"
    [] p = "ENEMY" -> "EVENT"
    [] OTHER -> "PLAYER"

\* _cycle(p)
Cycle(p) ==
  CASE p = "PLAYER" -> "ENEMY"
    [] p = "ENEMY" -> "EVENT"
    [] p = "EVENT" -> "CLEANUP"
    [] OTHER -> "PLAYER"

\* ENEMY effects of NEXT_PHASE.
EnemyEffects(w) ==
  [w EXCEPT
     !.health = IF w.player_room \in DOMAIN w.intruders /\ @ > 0
                THEN @ - 1 ELSE @,
     !.intruder_burn_last = Cardinality((DOMAIN w.intruders) \cap w.fires)]

\* Breadth-first search over open edges, one layer per call: dist maps the
\* rooms found so far to their distance, frontier is the layer at distance d.
RECURSIVE Bfs(_, _, _, _)
Bfs(w, frontier, dist, d) ==
  IF frontier = {} THEN dist
  ELSE LET found == (UNION {NeighborsOpen(w, cur) : cur \in frontier})
                      \ DOMAIN dist
       IN Bfs(w, found,
              [x \in (DOMAIN dist) \cup found |->
                 IF x \in DOMAIN dist THEN dist[x] ELSE d + 1],
              d + 1)

\* dist: BFS distances from the player's room.
OpenDist(w) == Bfs(w, {w.player_room}, [x \in {w.player_room} |-> 0], 0)

\* Mutation: the candidate neighbours are taken over every edge, closed ones
\* included.
DestinationsThroughDoors(w, dist, room) ==
  IF room \notin DOMAIN dist THEN {room}
  ELSE LET closer == {nb \in Neighbors(room) :
                        Get(dist, nb, dist[room] + 1) < dist[room]}
       IN IF closer = {} THEN {room} ELSE closer

\* The rooms the movement loop can pick for the intruder in room: the first
\* open neighbour in iteration order whose distance is below the room's own
\* (no later neighbour can be closer still), else the room itself.  The
\* iteration order of a set of str is not fixed by the code.
Destinations(w, dist, room) ==
  IF room \notin DOMAIN dist THEN {room}
  ELSE LET closer == {nb \in NeighborsOpen(w, room) :
                        Get(dist, nb, dist[room] + 1) < dist[room]}
       IN IF closer = {} THEN {room} ELSE closer

\* The choices of one destination per intruder.
Picks(w) ==
  LET dist == OpenDist(w)
  IN {f \in [DOMAIN w.intruders -> BoardRooms] :
        \A room \in DOMAIN w.intruders :
          f[room] \in Destinations(w, dist, room)}

\* max of a non-empty set of integers
MaxOf(S) == CHOOSE m \in S : \A x \in S : x <= m

\* Mutation: intruders that share a destination merge, the lowest HP kept.
MovedIntrudersKeepsMin(w, pick) ==
  [dest \in {pick[room] : room \in DOMAIN w.intruders} |->
     CHOOSE m \in {w.intruders[room] :
                     room \in {r \in DOMAIN w.intruders : pick[r] = dest}} :
       \A room \in {r \in DOMAIN w.intruders : pick[r] = dest} :
         m <= w.intruders[room]]

\* moved_intruders: intruders that share a destination merge, max HP kept.
MovedIntruders(w, pick) ==
  [dest \in {pick[room] : room \in DOMAIN w.intruders} |->
     MaxOf({0} \cup
           {w.intruders[room] :
              room \in {r \in DOMAIN w.intruders : pick[r] = dest}})]

\* Mutation: the noise goes to the edge to the last open neighbour in sorted
\* order.
SortedEdgeNoiseLast(w) ==
  LET neighs == NeighborsOpen(w, w.player_room)
  IN IF neighs # {}
     THEN LET last == CHOOSE n \in neighs :
                        \A o \in neighs : StrRank[o] <= StrRank[n]
              edge == NormEdge(w.player_room, last)
          IN Put(w.noise, edge, Get(w.noise, edge, 0) + 1)
     ELSE w.noise

\* NOISE_CORRIDOR / fallback corridor noise: one noise on the edge to the
\* first open neighbour of the player's room in sorted order.
SortedEdgeNoise(w) ==
  LET neighs == NeighborsOpen(w, w.player_room)
  IN IF neighs # {}
     THEN LET edge == NormEdge(w.player_room, SortedFirst(neighs))
          IN Put(w.noise, edge, Get(w.noise, edge, 0) + 1)
     ELSE w.noise

\* Mutation: SPAWN_FROM_BAG leaves the key of a token whose count reached 0.
ProcessCardKeepsEmptied(w, card) ==
  CASE card = "NOISE_CORRIDOR" -> [w EXCEPT !.noise = SortedEdgeNoise(w)]
    [] card = "NOISE_ROOM" ->
         [w EXCEPT !.room_noise =
            Put(@, w.player_room, Get(@, w.player_room, 0) + 1)]
    [] card = "BAG_DEV" ->
         [w EXCEPT !.bag_dev_count = @ + 1,
                   !.bag = Put(@, "ADULT", Get(@, "ADULT", 0) + 1)]
    [] card = "SPAWN_FROM_BAG" ->
         IF DOMAIN w.bag # {}
         THEN LET token_name ==
                    SortedFirst({k \in DOMAIN w.bag : w.bag[k] > 0})
                  left == w.bag[token_name] - 1
              IN [w EXCEPT
                    !.bag = Put(@, token_name, left),
                    !.intruders =
                      IF token_name = "ADULT" /\ w.player_room \notin DOMAIN @
                      THEN Put(@, w.player_room, 1) ELSE @]
         ELSE w
    [] card = "OXYGEN_LEAK" -> [w EXCEPT !.life_support_active = FALSE]
    [] card = "FIRE_ROOM" -> [w EXCEPT !.fires = @ \cup {w.player_room}]
    [] OTHER -> w

\* Mutation: SPAWN_FROM_BAG spawns an intruder whatever token is drawn.
ProcessCardSpawnsAnyToken(w, card) ==
  CASE card = "NOISE_CORRIDOR" -> [w EXCEPT !.noise = SortedEdgeNoise(w)]
    [] card = "NOISE_ROOM" ->
         [w EXCEPT !.room_noise =
            Put(@, w.player_room, Get(@, w.player_room, 0) + 1)]
    [] card = "BAG_DEV" ->
         [w EXCEPT !.bag_dev_count = @ + 1,
                   !.bag = Put(@, "ADULT", Get(@, "ADULT", 0) + 1)]
    [] card = "SPAWN_FROM_BAG" ->
         IF DOMAIN w.bag # {}
         THEN LET token_name ==
                    SortedFirst({k \in DOMAIN w.bag : w.bag[k] > 0})
                  left == w.bag[token_name] - 1
              IN [w EXCEPT
                    !.bag = IF left <= 0 THEN Pop(@, token_name)
                            ELSE Put(@, token_name, left),
                    !.intruders =
                      IF w.player_room \notin DOMAIN @
                      THEN Put(@, w.player_room, 1) ELSE @]
         ELSE w
    [] card = "OXYGEN_LEAK" -> [w EXCEPT !.life_support_active = FALSE]
    [] card = "FIRE_ROOM" -> [w EXCEPT !.fires = @ \cup {w.player_room}]
    [] OTHER -> w

\* Effect of the event card drawn from the front of event_deck_cards.
ProcessCard(w, card) ==
  CASE card = "NOISE_CORRIDOR" -> [w EXCEPT !.noise = SortedEdgeNoise(w)]
    [] card = "NOISE_ROOM" ->
         [w EXCEPT !.room_noise =
            Put(@, w.player_room, Get(@, w.player_room, 0) + 1)]
    [] card = "BAG_DEV" ->
         [w EXCEPT !.bag_dev_count = @ + 1,
                   !.bag = Put(@, "ADULT", Get(@, "ADULT", 0) + 1)]
    [] card = "SPAWN_FROM_BAG" ->
         IF DOMAIN w.bag # {}
         THEN LET token_name ==
                    SortedFirst({k \in DOMAIN w.bag : w.bag[k] > 0})
                  left == w.bag[token_name] - 1
              IN [w EXCEPT
                    !.bag = IF left <= 0 THEN Pop(@, token_name)
                            ELSE Put(@, token_name, left),
                    !.intruders =
                      IF token_name = "ADULT" /\ w.player_room \notin DOMAIN @
                      THEN Put(@, w.player_room, 1) ELSE @]
         ELSE w
    [] card = "OXYGEN_LEAK" -> [w EXCEPT !.life_support_active = FALSE]
    [] card = "FIRE_ROOM" -> [w EXCEPT !.fires = @ \cup {w.player_room}]
    [] OTHER -> w

\* Fallback when event_deck_cards is empty.
EventFallback(w, a) ==
  LET w1 == [w EXCEPT !.event_deck = IF @ > 0 THEN @ - 1 ELSE @]
  IN IF NoiseRoll(a) = "corridor"
     THEN [w1 EXCEPT !.noise = SortedEdgeNoise(w1)]
     ELSE [w1 EXCEPT !.room_noise =
             Put(@, w1.player_room, Get(@, w1.player_room, 0) + 1)]

\* Mutation: the card drawn is left at the front of event_deck_cards.
EventEffectsKeepsCard(w, a, pick) ==
  LET moved_intruders == MovedIntruders(w, pick)
      dmg_event == IF w.player_room \in DOMAIN moved_intruders /\ w.health > 0
                   THEN 1 ELSE 0
      w1 == [w EXCEPT !.health = @ - dmg_event, !.intruders = moved_intruders]
  IN IF w1.event_deck_cards # << >>
     THEN LET card == Head(w1.event_deck_cards)
              remaining == Tail(w1.event_deck_cards)
          IN ProcessCard([w1 EXCEPT !.event_deck = Len(remaining)], card)
     ELSE EventFallback(w1, a)

\* EVENT effects of NEXT_PHASE: intruder movement, then the event card.
EventEffects(w, a, pick) ==
  LET moved_intruders == MovedIntruders(w, pick)
      dmg_event == IF w.player_room \in DOMAIN moved_intruders /\ w.health > 0
                   THEN 1 ELSE 0
      w1 == [w EXCEPT !.health = @ - dmg_event, !.intruders = moved_intruders]
  IN IF w1.event_deck_cards # << >>
     THEN LET card == Head(w1.event_deck_cards)
              remaining == Tail(w1.event_deck_cards)
          IN ProcessCard([w1 EXCEPT !.event_deck = Len(remaining),
                                    !.event_deck_cards = remaining], card)
     ELSE EventFallback(w1, a)

\* Mutation: completion is tested before the countdown, so the loss comes
\* one CLEANUP late.
CleanupEffectsLossBeforeCountdown(w) ==
  LET timer == IF w.self_destruct_armed /\ w.destruction_timer > 0
               THEN w.destruction_timer - 1 ELSE w.destruction_timer
      w1 == [w EXCEPT !.round = @ + 1, !.destruction_timer = timer]
  IN IF w.self_destruct_armed /\ w.destruction_timer = 0 /\ ~w.game_over
     THEN [w1 EXCEPT !.game_over = TRUE, !.win = FALSE]
     ELSE w1

\* CLEANUP effects of NEXT_PHASE: round, self-destruct countdown and loss.
CleanupEffects(w) ==
  LET timer == IF w.self_destruct_armed /\ w.destruction_timer > 0
               THEN w.destruction_timer - 1 ELSE w.destruction_timer
      w1 == [w EXCEPT !.round = @ + 1, !.destruction_timer = timer]
  IN IF w1.self_destruct_armed /\ w1.destruction_timer = 0 /\ ~w1.game_over
     THEN [w1 EXCEPT !.game_over = TRUE, !.win = FALSE]
     ELSE w1

\* NEXT_PHASE that is not rejected: the phase after state.phase and its
\* effects.
NextPhase(s, a, pick, w) ==
  LET phase == Cycle(s.phase)
      w1 == [w EXCEPT !.phase = phase]
  IN CASE phase = "ENEMY" -> EnemyEffects(w1)
       [] phase = "EVENT" -> EventEffects(w1, a, pick)
       [] phase = "CLEANUP" -> CleanupEffects(w1)
       [] OTHER -> w1

\* Mutation: the snapshot ends the game when the player has no health left.
FinalSnapshotDeathEnds(s, w) ==
  [w EXCEPT !.turn = s.turn + 1, !.game_over = @ \/ w.health = 0]

\* Mutation: the snapshot keeps the input turn.
FinalSnapshotKeepsTurn(s, w) == [w EXCEPT !.turn = s.turn]

\* The final state snapshot: the working values with turn = state.turn + 1.
FinalSnapshot(s, w) == [w EXCEPT !.turn = s.turn + 1]

\* The action is one of those apply returns early on.
Rejected(s, a) ==
  CASE a.type \in {"MOVE", "MOVE_CAUTIOUS"} -> MoveRejected(s, a)
    [] a.type \in {"OPEN_DOOR", "CLOSE_DOOR"} -> DoorRejected(s, a)
    [] a.type = "END_PLAYER_PHASE" -> EndPlayerPhaseRejected(s)
    [] a.type = "NEXT_PHASE" -> NextPhaseRejected(s)
    [] OTHER -> FALSE

\* Rules.apply(state, action); pick is the destination the EVENT movement
\* loop reaches for each intruder.
Apply(s, a, pick) ==
  IF a.type = "NOOP" THEN NoopResult(s)
  ELSE IF Rejected(s, a) THEN NoopResult(s)
  ELSE LET w1 == EndOfTurn(a, ActionEffect(s, a))
           w2 == IF a.type = "END_PLAYER_PHASE" THEN EndPlayerPhase(w1)
                 ELSE w1
           w3 == IF a.type = "NEXT_PHASE" THEN NextPhase(s, a, pick, w2)
                 ELSE w2
       IN FinalSnapshot(s, w3)

\* ---------------------------------------------------------------------------
\* States the engine starts from
\* ---------------------------------------------------------------------------

\* Self-destruct and terminal flags a game can show: not armed, escaped,
\* counting down, destroyed, armed and escaped, escaped and timer run out.
EndgameStates ==
  {[self_destruct_armed |-> FALSE, destruction_timer |-> 0,
    game_over |-> FALSE, win |-> FALSE],
   [self_destruct_armed |-> FALSE, destruction_timer |-> 0, game_over |-> TRUE,
    win |-> TRUE],
   [self_destruct_armed |-> TRUE, destruction_timer |-> 3, game_over |-> FALSE,
    win |-> FALSE],
   [self_destruct_armed |-> TRUE, destruction_timer |-> 1, game_over |-> FALSE,
    win |-> FALSE],
   [self_destruct_armed |-> TRUE, destruction_timer |-> 0, game_over |-> TRUE,
    win |-> FALSE],
   [self_destruct_armed |-> TRUE, destruction_timer |-> 2, game_over |-> TRUE,
    win |-> TRUE],
   [self_destruct_armed |-> TRUE, destruction_timer |-> 0, game_over |-> TRUE,
    win |-> TRUE]}

\* Movement, doors, noise and encounters.
InitMove ==
  {[player_room |-> r, noise |-> n[1], room_noise |-> n[2], doors |-> d]
     @@ DefaultState :
     r \in {"A", "D"},
     d \in {{}, {<<"A", "D">>, <<"C", "D">>}},
     n \in {<<EmptyDict, EmptyDict>>,
            <<(<<"A", "B">> :> 1), EmptyDict>>,
            <<EmptyDict, ("B" :> 1 @@ "D" :> 2)>>,
            <<(<<"B", "C">> :> 2 @@ <<"D", "E">> :> 1),
              ("B" :> 1 @@ "D" :> 2)>>}}
  \cup
  {[actions_in_turn |-> k, noise |-> n, intruders |-> i] @@ DefaultState :
     n \in {EmptyDict, (<<"A", "B">> :> 1)},
     i \in {EmptyDict, ("B" :> 2)},
     k \in {0, 1}}
  \cup
  {[doors |-> {<<"A", "B">>}] @@ DefaultState}

\* Ranged combat: the attack deck values cover miss, hit, crit and jam, with
\* and without the last-bullet trigger.
InitCombat ==
  {[intruders |-> ("A" :> 1), attack_deck |-> d] @@ DefaultState :
     d \in {0, 1, 5, 7, 10, 13, 14, 35, 65, 91}}
  \cup
  {[ammo |-> 1, intruders |-> ("A" :> 1), attack_deck |-> d]
     @@ DefaultState :
     d \in {0, 5, 10, 65}}
  \cup
  {[ammo |-> g[1], intruders |-> ("A" :> 2 @@ "C" :> 3), attack_deck |-> d,
    weapon_jammed |-> g[2]] @@ DefaultState :
     d \in {7, 10},
     g \in {<<0, FALSE>>, <<1, FALSE>>, <<1, TRUE>>}}
  \cup
  {[ammo |-> 1, intruders |-> ("C" :> 1)] @@ DefaultState}
  \cup
  {[player_room |-> "C", intruders |-> ("C" :> 2), attack_deck |-> 13]
     @@ DefaultState}

\* Melee and the end-of-turn hazards.
InitMelee ==
  {[health |-> h, intruders |-> i] @@ DefaultState :
     i \in {("A" :> 1), ("A" :> 3)},
     h \in {0, 1, 2, 4, 5}}
  \cup
  {[health |-> h, intruders |-> ("A" :> 1), serious_wounds |-> 3]
     @@ DefaultState :
     h \in {2, 4}}
  \cup
  {[health |-> 4, ammo |-> 0, intruders |-> ("A" :> 2)] @@ DefaultState}
  \cup
  {[oxygen |-> ls[2], health |-> h[1], actions_in_turn |-> 1,
    life_support_active |-> ls[1], fires |-> h[2], intruders |-> ("A" :> 3)]
     @@ DefaultState :
     h \in {<<5, {}>>, <<5, {"A"}>>, <<0, {"A"}>>},
     ls \in {<<TRUE, 5>>, <<FALSE, 1>>, <<FALSE, 0>>}}

\* The room consoles.
InitRooms ==
  {[player_room |-> "D", health |-> h, serious_wounds |-> sw]
     @@ DefaultState :
     h \in {0, 4, 5}, sw \in {0, 1}}
  \cup
  {[player_room |-> "D", health |-> 4, actions_in_turn |-> 1,
    serious_wounds |-> 1] @@ DefaultState}
  \cup
  {[player_room |-> "C", ammo |-> g[1], actions_in_turn |-> g[3],
    intruders |-> g[4], weapon_jammed |-> g[2]] @@ DefaultState :
     g \in {<<0, FALSE, 0, EmptyDict>>, <<3, FALSE, 0, EmptyDict>>,
            <<3, TRUE, 0, EmptyDict>>, <<0, TRUE, 0, EmptyDict>>,
            <<0, TRUE, 1, EmptyDict>>, <<0, TRUE, 0, ("C" :> 1)>>}}
  \cup
  {([phase |-> p, player_room |-> "E"] @@ e) @@ DefaultState :
     p \in {"PLAYER", "EVENT"}, e \in EndgameStates}
  \cup
  {[player_room |-> "E", actions_in_turn |-> 1] @@ DefaultState}
  \cup
  {[player_room |-> "B", oxygen |-> o, actions_in_turn |-> 1,
    life_support_active |-> ls] @@ DefaultState :
     ls \in BOOLEAN, o \in {0, 1, 5}}
  \cup
  {[player_room |-> "B", life_support_active |-> ls] @@ DefaultState :
     ls \in BOOLEAN}
  \cup
  {[health |-> h, actions_in_turn |-> 1, fires |-> f] @@ DefaultState :
     f \in {{"A"}, {"A", "B"}}, h \in {0, 1, 5}}
  \cup
  {[fires |-> f] @@ DefaultState : f \in {{"A"}, {"A", "B"}}}

\* The phase cycle and the intruder movement of the EVENT phase.
InitPhases ==
  {[phase |-> "ENEMY", fires |-> {"A", "C"}, doors |-> d, intruders |-> i]
     @@ DefaultState :
     i \in {("A" :> 1), ("B" :> 1 @@ "C" :> 2 @@ "D" :> 3),
            ("C" :> 1 @@ "F" :> 1)},
     d \in {{}, {<<"B", "C">>}, {<<"A", "B">>, <<"A", "D">>},
            {<<"E", "F">>}}}
  \cup
  {[phase |-> "ENEMY", player_room |-> r, fires |-> {"A", "C"}, doors |-> d,
    intruders |-> i] @@ DefaultState :
     r \in {"E", "F"},
     i \in {("B" :> 1 @@ "C" :> 2 @@ "D" :> 3), ("C" :> 1 @@ "F" :> 1)},
     d \in {{}, {<<"B", "C">>}}}
  \cup
  {[phase |-> p, fires |-> {"A", "C"}, intruders |-> i] @@ DefaultState :
     p \in Phases,
     i \in {EmptyDict, ("A" :> 1)}}
  \cup
  {[phase |-> p, health |-> 0, fires |-> {"A", "C"}, intruders |-> ("A" :> 1)]
     @@ DefaultState :
     p \in {"PLAYER", "ENEMY"}}

\* Event cards and the token bag, on entering EVENT.
InitCards ==
  {[phase |-> "ENEMY", event_deck |-> Len(c), event_deck_cards |-> c,
    bag |-> b] @@ DefaultState :
     c \in {<<"BAG_DEV", "SPAWN_FROM_BAG">>, <<"SPAWN_FROM_BAG", "BAG_DEV">>},
     b \in {EmptyDict, ("ADULT" :> 1), ("ADULT" :> 2 @@ "LARVA" :> 1),
            ("LARVA" :> 1 @@ "QUEEN" :> 1)}}
  \cup
  {[phase |-> "ENEMY", event_deck |-> Len(c), event_deck_cards |-> c]
     @@ DefaultState :
     c \in {<<"NOISE_CORRIDOR", "FIRE_ROOM">>, <<"NOISE_ROOM">>,
            <<"FIRE_ROOM">>, <<"OXYGEN_LEAK", "NOISE_ROOM", "FIRE_ROOM">>,
            <<"UNKNOWN", "NOISE_ROOM">>}}
  \cup
  {[phase |-> "ENEMY", doors |-> d, intruders |-> i, event_deck |-> Len(c),
    event_deck_cards |-> c, bag |-> ("ADULT" :> 1)] @@ DefaultState :
     c \in {<<"NOISE_CORRIDOR", "FIRE_ROOM">>, <<"SPAWN_FROM_BAG">>},
     i \in {EmptyDict, ("A" :> 1)},
     d \in {{<<"A", "B">>}, {<<"A", "B">>, <<"A", "D">>}}}
  \cup
  {[phase |-> "ENEMY", player_room |-> r, doors |-> d, event_deck |-> ed]
     @@ DefaultState :
     ed \in {0, 5}, d \in {{}, {<<"A", "B">>, <<"A", "D">>}},
     r \in {"A", "D"}}

InitStates ==
  InitMove \cup InitCombat \cup InitMelee \cup InitRooms \cup InitPhases
    \cup InitCards

\* ---------------------------------------------------------------------------
\* Inputs of Environment.step
\* ---------------------------------------------------------------------------

\* "to": every neighbour, the player's own room (not a neighbour) and None.
ToInputs(s) == Neighbors(s.player_room) \cup {s.player_room, None}

\* "noise_roll": absent or 'room'.
NoiseRollInputs == {None, "room"}

\* "noise_edge": absent, an edge given in reverse order, an edge, a pair of
\* rooms that is no edge.
NoiseEdgeInputs == {NoEdge, <<"B", "A">>, <<"C", "D">>, <<"A", "C">>}

\* ---------------------------------------------------------------------------
\* Environment
\* ---------------------------------------------------------------------------

\* No step taken yet.
NoAction == Plain("None")

\* The rooms and edges the state s names are rooms and edges of board b.
OnBoard(s, b) ==
  /\ s.player_room \in b.rooms
  /\ s.fires \subseteq b.rooms
  /\ DOMAIN s.intruders \subseteq b.rooms
  /\ DOMAIN s.room_noise \subseteq b.rooms
  /\ DOMAIN s.noise \subseteq b.edges
  /\ s.doors \subseteq b.edges

Init ==
  /\ board \in Boards
  /\ state \in {s \in InitStates : OnBoard(s, board)}
  /\ prev = state
  /\ act = NoAction

\* Environment.step(action)
Step(a, pick) ==
  /\ state.turn < MaxTurn
  /\ state' = Apply(state, a, pick)
  /\ prev' = state
  /\ act' = a
  /\ board' = board

DoNoop == Step(Plain("NOOP"), EmptyDict)

DoPass == Step(Plain("PASS"), EmptyDict)

DoMove ==
  \E to \in ToInputs(state), nr \in NoiseRollInputs \cup {"corridor"} :
    Step(Action("MOVE", to, NoEdge, nr), EmptyDict)

DoMoveCautious ==
  \E to \in ToInputs(state) :
    \/ \E ne \in NoiseEdgeInputs :
         Step(Action("MOVE_CAUTIOUS", to, ne, None), EmptyDict)
    \/ Step(Action("MOVE_CAUTIOUS", to, NoEdge, "room"), EmptyDict)

DoOpenDoor ==
  \E to \in ToInputs(state) : Step(Toward("OPEN_DOOR", to), EmptyDict)

DoCloseDoor ==
  \E to \in ToInputs(state) : Step(Toward("CLOSE_DOOR", to), EmptyDict)

DoShoot == Step(Plain("SHOOT"), EmptyDict)

DoBurst == Step(Plain("BURST"), EmptyDict)

DoMelee == Step(Plain("MELEE"), EmptyDict)

DoUseRoom == Step(Plain("USE_ROOM"), EmptyDict)

DoEscape == Step(Plain("ESCAPE"), EmptyDict)

DoEndPlayerPhase == Step(Plain("END_PLAYER_PHASE"), EmptyDict)

DoNextPhase ==
  \E nr \in NoiseRollInputs :
    \E pick \in (IF Cycle(state.phase) = "EVENT" THEN Picks(state)
                 ELSE {EmptyDict}) :
      Step(Action("NEXT_PHASE", None, NoEdge, nr), pick)

\* Environment.reset(seed): a new GameState(seed=seed), on the default
\* board and with no step taken; Rules reads seed nowhere.
DoReset ==
  /\ state' = DefaultState
  /\ prev' = DefaultState
  /\ act' = NoAction
  /\ board' = DefaultBoard

Next ==
  \/ DoNoop
  \/ DoPass
  \/ DoMove
  \/ DoMoveCautious
  \/ DoOpenDoor
  \/ DoCloseDoor
  \/ DoShoot
  \/ DoBurst
  \/ DoMelee
  \/ DoUseRoom
  \/ DoEscape
  \/ DoEndPlayerPhase
  \/ DoNextPhase
  \/ DoReset

Spec == Init /\ [][Next]_vars

\* ---------------------------------------------------------------------------
\* Properties
\* ---------------------------------------------------------------------------

\* Rules.legal_actions(state), for every iteration order of the neighbours.
LegalLists(s) ==
  {LegalActions(s, ord) : ord \in Enumerations(Neighbors(s.player_room))}

\* The action occurs in the list.
Listed(a, list) == \E i \in DOMAIN list : list[i] = a

\* An action of the given type occurs in the list.
ListedType(type, list) == \E i \in DOMAIN list : list[i].type = type

\* The room has one of the types USE_ROOM acts on.
UsableRoom(r) ==
  RoomType(r) \in {"CONTROL", "ARMORY", "SURGERY", "ENGINE", "FIRE_CONTROL"}

\* The action is not legal in s: legal_actions(s) lists no action of its
\* type with its "to" (the noise parameters, which legal_actions never
\* sets, left aside).
IllegalAction(s, a) ==
  \A list \in LegalLists(s) :
    \A i \in DOMAIN list : list[i].type # a.type \/ list[i].to # a.to

\* C1: an action that is not legal in the state it is applied to changes
\* nothing but turn, which grows by 1.
C1_IllegalActionIsNoop ==
  (act # NoAction /\ IllegalAction(prev, act))
    => state = [prev EXCEPT !.turn = prev.turn + 1]

\* C2: every apply returns a state whose turn is the input turn + 1.
C2_TurnIncrements == act # NoAction => state.turn = prev.turn + 1

\* C2 witness: a legal NEXT_PHASE from ENEMY has advanced the phase and turn.
C2_Witness ==
  /\ act.type = "NEXT_PHASE"
  /\ prev.phase = "ENEMY"
  /\ state.phase = "EVENT"
  /\ state.turn = prev.turn + 1

\* The states END_PLAYER_PHASE and three NEXT_PHASE lead through from s,
\* for the given noise rolls and intruder destinations.
CycleRuns(s) ==
  LET s1 == Apply(s, Plain("END_PLAYER_PHASE"), EmptyDict)
  IN {<<s1, s2, Apply(s2, Plain("NEXT_PHASE"), EmptyDict),
        Apply(Apply(s2, Plain("NEXT_PHASE"), EmptyDict),
              Plain("NEXT_PHASE"), EmptyDict)>> :
        s2 \in {Apply(s1, Action("NEXT_PHASE", None, NoEdge, nr), pick) :
                  nr \in NoiseRollInputs, pick \in Picks(s1)}}

\* C3: from PLAYER with no pending action, END_PLAYER_PHASE and three
\* NEXT_PHASE visit ENEMY, EVENT, CLEANUP, PLAYER; round grows once in that
\* cycle, on entering CLEANUP, and in no other transition.
C3_PhaseCycle ==
  /\ (state.phase = "PLAYER" /\ state.actions_in_turn = 0) =>
       \A run \in CycleRuns(state) :
         /\ <<run[1].phase, run[2].phase, run[3].phase, run[4].phase>>
              = <<"ENEMY", "EVENT", "CLEANUP", "PLAYER">>
         /\ <<run[1].round, run[2].round, run[3].round, run[4].round>>
              = <<state.round, state.round, state.round + 1, state.round + 1>>
  /\ (act # NoAction /\ state.round # prev.round) =>
       /\ act.type = "NEXT_PHASE"
       /\ state.phase = "CLEANUP"
       /\ state.round = prev.round + 1

\* C3 witness: a PLAYER state with no pending action, entered from CLEANUP,
\* from which the cycle comes back to PLAYER one round later.
C3_Witness ==
  /\ act.type = "NEXT_PHASE"
  /\ prev.phase = "CLEANUP"
  /\ state.phase = "PLAYER"
  /\ state.actions_in_turn = 0
  /\ \E run \in CycleRuns(state) :
       run[4].phase = "PLAYER" /\ run[4].round = state.round + 1

\* C4: the phase leaves PLAYER only by END_PLAYER_PHASE with no pending
\* action, to ENEMY; every other action in PLAYER phase keeps the phase.
C4_LeavePlayerOnlyByEnd ==
  (act # NoAction /\ prev.phase = "PLAYER") =>
    IF act.type = "END_PLAYER_PHASE" /\ prev.actions_in_turn = 0
    THEN state.phase = "ENEMY"
    ELSE state.phase = "PLAYER"

\* C4 witness: END_PLAYER_PHASE with no pending action has entered ENEMY.
C4_Witness ==
  /\ act.type = "END_PLAYER_PHASE"
  /\ prev.phase = "PLAYER"
  /\ prev.actions_in_turn = 0
  /\ state.phase = "ENEMY"

\* C5: legal_actions is never empty; outside PLAYER phase it is exactly
\* [NEXT_PHASE, NOOP]; in PLAYER phase it has no NEXT_PHASE, has PASS and
\* ends with NOOP.
C5_LegalActionsShape ==
  \A list \in LegalLists(state) :
    /\ Len(list) >= 1
    /\ state.phase \in {"ENEMY", "EVENT", "CLEANUP"} =>
         list = <<Plain("NEXT_PHASE"), Plain("NOOP")>>
    /\ state.phase = "PLAYER" =>
         /\ ~ListedType("NEXT_PHASE", list)
         /\ Listed(Plain("PASS"), list)
         /\ list[Len(list)] = Plain("NOOP")

\* C5 witness: a state in ENEMY phase entered by END_PLAYER_PHASE, whose
\* list is [NEXT_PHASE, NOOP].
C5_Witness ==
  /\ act.type = "END_PLAYER_PHASE"
  /\ state.phase = "ENEMY"
  /\ <<Plain("NEXT_PHASE"), Plain("NOOP")>> \in LegalLists(state)

\* The door and movement action types.
DoorTypes == {"OPEN_DOOR", "CLOSE_DOOR"}

MoveTypes == {"MOVE", "MOVE_CAUTIOUS"}

\* C6: in PLAYER phase MOVE and MOVE_CAUTIOUS to a neighbour are listed
\* exactly when the edge is open; one door action per neighbour is listed,
\* OPEN_DOOR on a closed edge and CLOSE_DOOR on an open one; no movement or
\* door action names a room that is no neighbour.  After OPEN_DOOR the MOVE
\* to that room is listed, after CLOSE_DOOR it is not.
C6_MoveAndDoorOptions ==
  /\ state.phase = "PLAYER" =>
       \A list \in LegalLists(state) :
         /\ \A n \in Neighbors(state.player_room) :
              LET closed == NormEdge(state.player_room, n) \in state.doors
              IN /\ Listed(Toward("MOVE", n), list) <=> ~closed
                 /\ Listed(Toward("MOVE_CAUTIOUS", n), list) <=> ~closed
                 /\ Cardinality({i \in DOMAIN list :
                       list[i].type \in DoorTypes /\ list[i].to = n}) = 1
                 /\ Listed(Toward(IF closed THEN "OPEN_DOOR"
                                  ELSE "CLOSE_DOOR", n), list)
         /\ \A i \in DOMAIN list :
              list[i].type \in MoveTypes \cup DoorTypes =>
                list[i].to \in Neighbors(state.player_room)
  /\ (/\ act.type \in DoorTypes
      /\ prev.phase = "PLAYER"
      /\ act.to \in Neighbors(prev.player_room)) =>
       \A list \in LegalLists(state) :
         Listed(Toward("MOVE", act.to), list) <=> act.type = "OPEN_DOOR"

\* C6 witness: OPEN_DOOR has opened a closed edge in PLAYER phase.
C6_Witness ==
  /\ act.type = "OPEN_DOOR"
  /\ prev.phase = "PLAYER"
  /\ act.to \in Neighbors(prev.player_room)
  /\ NormEdge(prev.player_room, act.to) \in prev.doors
  /\ NormEdge(prev.player_room, act.to) \notin state.doors

\* An intruder is in the player's room.
IntruderHere(s) == s.player_room \in DOMAIN s.intruders

\* C7: in PLAYER phase MELEE is listed exactly when an intruder is in the
\* player's room; SHOOT and BURST exactly when, in addition, ammo > 0 and
\* the weapon is not jammed.
C7_CombatOptions ==
  state.phase = "PLAYER" =>
    \A list \in LegalLists(state) :
      /\ ListedType("MELEE", list) <=> IntruderHere(state)
      /\ ListedType("SHOOT", list) <=>
           (IntruderHere(state) /\ state.ammo > 0 /\ ~state.weapon_jammed)
      /\ ListedType("BURST", list) <=>
           (IntruderHere(state) /\ state.ammo > 0 /\ ~state.weapon_jammed)

\* C7 witness: a BURST has spent the last ammo and the intruder is still in
\* the player's room.
C7_Witness ==
  /\ act.type = "BURST"
  /\ state.phase = "PLAYER"
  /\ IntruderHere(state)
  /\ prev.ammo = 1
  /\ state.ammo = 0

\* Position of an action type in the order C8 states.
Group(type) ==
  CASE type \in MoveTypes -> 1
    [] type \in DoorTypes -> 2
    [] type \in {"MELEE", "SHOOT", "BURST"} -> 3
    [] type \in {"USE_ROOM", "ESCAPE"} -> 4
    [] type = "PASS" -> 5
    [] type = "END_PLAYER_PHASE" -> 6
    [] type = "NOOP" -> 7
    [] OTHER -> 0

\* C8: the PLAYER-phase list is ordered movement, doors, combat, room use,
\* PASS, END_PLAYER_PHASE, NOOP; END_PLAYER_PHASE is listed exactly when no
\* action is pending.
C8_ListOrder ==
  state.phase = "PLAYER" =>
    \A list \in LegalLists(state) :
      /\ \A i \in DOMAIN list : Group(list[i].type) >= 1
      /\ \A i \in 1..(Len(list) - 1) :
           Group(list[i].type) <= Group(list[i + 1].type)
      /\ ListedType("END_PLAYER_PHASE", list) <=> state.actions_in_turn = 0

\* C8 witness: after a first action of the turn the player shares a console
\* room with an intruder, so the list has every group but END_PLAYER_PHASE.
C8_Witness ==
  /\ act # NoAction
  /\ state.phase = "PLAYER"
  /\ state.actions_in_turn = 1
  /\ IntruderHere(state)
  /\ UsableRoom(state.player_room)
  /\ state.ammo > 0
  /\ ~state.weapon_jammed

\* C9: health and oxygen never go below 0 and ammo stays within 0..ammo_max.
C9_ResourceBounds ==
  /\ state.health >= 0
  /\ state.oxygen >= 0
  /\ state.ammo >= 0
  /\ state.ammo <= state.ammo_max

\* C9 witness: a MELEE fought at health 0 has left health at 0.
C9_Witness ==
  /\ act.type = "MELEE"
  /\ IntruderHere(prev)
  /\ prev.health = 0
  /\ state.health = 0

\* The corridor is incident to the room.
Incident(e, room) == e[1] = room \/ e[2] = room

\* A MOVE / MOVE_CAUTIOUS that moved the player.
Moved == act.type \in MoveTypes /\ ~MoveRejected(prev, act)

\* The destination had room noise or noise on an incident corridor.
NoisyBefore(s, room) ==
  \/ Get(s.room_noise, room, 0) >= 1
  \/ \E e \in BoardEdges : Incident(e, room) /\ Get(s.noise, e, 0) >= 1

\* C10: a move into a room without intruder that had room noise or
\* incident corridor noise adds exactly one intruder, in that room with
\* 1 HP, clears the room's room_noise entry and leaves no noise on any
\* corridor incident to the room.
C10_EncounterSpawns ==
  (/\ Moved
   /\ act.to \notin DOMAIN prev.intruders
   /\ NoisyBefore(prev, act.to)) =>
    /\ DOMAIN state.intruders = (DOMAIN prev.intruders) \cup {act.to}
    /\ state.intruders[act.to] = 1
    /\ \A r \in DOMAIN prev.intruders : state.intruders[r] = prev.intruders[r]
    /\ act.to \notin DOMAIN state.room_noise
    /\ \A e \in BoardEdges : Incident(e, act.to) => Get(state.noise, e, 0) = 0

\* C10 witness: a MOVE over a corridor that carried noise has spawned the
\* intruder and the corridor, which the move itself makes noise on, is clear.
C10_Witness ==
  /\ act.type = "MOVE"
  /\ Moved
  /\ act.noise_roll = None
  /\ Get(prev.noise, NormEdge(prev.player_room, act.to), 0) >= 1
  /\ act.to \notin DOMAIN prev.intruders
  /\ state.player_room = act.to
  /\ Get(state.intruders, act.to, 0) = 1
  /\ NormEdge(prev.player_room, act.to) \notin DOMAIN state.noise

\* C11: a move into a room that had no room noise and no noise on any
\* incident corridor leaves the intruders map as it was, whatever noise the
\* move itself places.
C11_QuietRoomNoSpawn ==
  (Moved /\ ~NoisyBefore(prev, act.to)) => state.intruders = prev.intruders

\* C11 witness: a MOVE into a quiet room without intruder has put noise on
\* the corridor it used and no intruder has appeared.
C11_Witness ==
  /\ act.type = "MOVE"
  /\ Moved
  /\ ~NoisyBefore(prev, act.to)
  /\ act.to \notin DOMAIN prev.intruders
  /\ Get(state.noise, NormEdge(prev.player_room, act.to), 0) >= 1
  /\ state.intruders = prev.intruders

\* C12: player_room changes only in a MOVE / MOVE_CAUTIOUS step, to the
\* action's destination, over a board edge that was open in the pre-state;
\* a move whose edge is closed keeps player_room and still adds 1 to turn.
C12_MoveOnlyOverOpenEdges ==
  /\ (act # NoAction /\ state.player_room # prev.player_room) =>
       /\ act.type \in MoveTypes
       /\ state.player_room = act.to
       /\ NormEdge(prev.player_room, state.player_room) \in BoardEdges
       /\ NormEdge(prev.player_room, state.player_room) \notin prev.doors
  /\ (/\ act.type \in MoveTypes
      /\ act.to \in Neighbors(prev.player_room)
      /\ NormEdge(prev.player_room, act.to) \in prev.doors) =>
       /\ state.player_room = prev.player_room
       /\ state.turn = prev.turn + 1

\* C12 witness: a MOVE at a closed door has kept the player in place.
C12_Witness ==
  /\ act.type = "MOVE"
  /\ act.to \in Neighbors(prev.player_room)
  /\ NormEdge(prev.player_room, act.to) \in prev.doors
  /\ state.player_room = prev.player_room
  /\ state.turn = prev.turn + 1

\* The guard of SHOOT and BURST holds in s and s is in PLAYER phase.
LegalAttack(s) ==
  s.phase = "PLAYER" /\ IntruderHere(s) /\ s.ammo > 0 /\ ~s.weapon_jammed

\* The step from s to r shows the attack outcome o on the intruder in the
\* player's room and on the weapon: hit 1 damage, crit 2, the intruder
\* removed at 0 HP or less; jam sets weapon_jammed; miss changes neither.
OutcomeShown(o, s, r) ==
  LET dmg == CASE o = "hit" -> 1 [] o = "crit" -> 2 [] OTHER -> 0
      hp == s.intruders[s.player_room] - dmg
  IN /\ r.weapon_jammed = (o = "jam")
     /\ IF dmg = 0 THEN r.intruders = s.intruders
        ELSE /\ \A room \in (DOMAIN s.intruders) \ {s.player_room} :
                  Get(r.intruders, room, 0) = s.intruders[room]
             /\ (DOMAIN r.intruders) \ {s.player_room}
                  = (DOMAIN s.intruders) \ {s.player_room}
             /\ IF hp <= 0 THEN s.player_room \notin DOMAIN r.intruders
                ELSE Get(r.intruders, s.player_room, 0) = hp

\* C13, as amended: a legal SHOOT or BURST at attack_deck d is a miss if
\* d <= 0, else a jam if 13 divides d, else a crit if 7 divides d, else a
\* hit; attack_deck becomes max(d - 1, 0).
C13_OutcomeTable ==
  (act.type \in {"SHOOT", "BURST"} /\ LegalAttack(prev)) =>
    LET d == prev.attack_deck
        o == IF d <= 0 THEN "miss"
             ELSE IF d % 13 = 0 THEN "jam"
             ELSE IF d % 7 = 0 THEN "crit"
             ELSE "hit"
    IN /\ OutcomeShown(o, prev, state)
       /\ state.attack_deck = IF d - 1 > 0 THEN d - 1 ELSE 0

\* C13 as stated: jam if 13 divides d, else crit if 7 divides d, else miss
\* if d <= 0, else hit.
C13_OutcomeTableAsStated ==
  (act.type \in {"SHOOT", "BURST"} /\ LegalAttack(prev)) =>
    LET d == prev.attack_deck
        o == IF d % 13 = 0 THEN "jam"
             ELSE IF d % 7 = 0 THEN "crit"
             ELSE IF d <= 0 THEN "miss"
             ELSE "hit"
    IN /\ OutcomeShown(o, prev, state)
       /\ state.attack_deck = IF d - 1 > 0 THEN d - 1 ELSE 0

\* C13 witness: a legal SHOOT at an exhausted deck has missed: no jam, the
\* intruder untouched, the deck still 0.
C13_Witness ==
  /\ act.type = "SHOOT"
  /\ LegalAttack(prev)
  /\ prev.attack_deck = 0
  /\ ~state.weapon_jammed
  /\ state.intruders = prev.intruders
  /\ state.attack_deck = 0

\* C14, as amended: a legal SHOOT spends 1 ammo when the attack_deck value
\* before the decrement is a positive multiple of 5 and none otherwise,
\* whatever the outcome.
C14_ShootAmmo ==
  (act.type = "SHOOT" /\ LegalAttack(prev)) =>
    state.ammo =
      IF prev.attack_deck > 0 /\ prev.attack_deck % 5 = 0
      THEN prev.ammo - 1 ELSE prev.ammo

\* C14 as stated: 1 ammo is spent when the value is a multiple of 5.
C14_ShootAmmoAsStated ==
  (act.type = "SHOOT" /\ LegalAttack(prev)) =>
    state.ammo =
      IF prev.attack_deck % 5 = 0 THEN prev.ammo - 1 ELSE prev.ammo

\* C14 witness: a legal SHOOT at deck value 65 has jammed the weapon and
\* spent one ammo.
C14_Witness ==
  /\ act.type = "SHOOT"
  /\ LegalAttack(prev)
  /\ prev.attack_deck = 65
  /\ state.weapon_jammed
  /\ state.ammo = prev.ammo - 1

\* C15: a legal BURST takes exactly 1 from ammo whatever the attack_deck
\* value, and leaves intruders, weapon_jammed and attack_deck as a SHOOT
\* from the same state does.
C15_BurstAmmo ==
  (act.type = "BURST" /\ LegalAttack(prev)) =>
    LET shot == Apply(prev, Plain("SHOOT"), EmptyDict)
    IN /\ state.ammo = prev.ammo - 1
       /\ state.intruders = shot.intruders
       /\ state.weapon_jammed = shot.weapon_jammed
       /\ state.attack_deck = shot.attack_deck

\* C15 witness: a legal BURST at deck value 7, where the last-bullet
\* trigger does not fire, has spent one ammo and dealt the crit.
C15_Witness ==
  /\ act.type = "BURST"
  /\ LegalAttack(prev)
  /\ prev.attack_deck = 7
  /\ state.ammo = prev.ammo - 1
  /\ state.attack_deck = 6
  /\ Get(state.intruders, prev.player_room, 0)
       = Max(prev.intruders[prev.player_room] - 2, 0)

\* The states in CLEANUP phase that END_PLAYER_PHASE and two NEXT_PHASE reach
\* from s, a PLAYER state with no pending action, for every noise roll and
\* every choice of intruder destinations in the EVENT step.
AfterCleanup(s) ==
  LET enemy == Apply(s, Plain("END_PLAYER_PHASE"), EmptyDict)
  IN {Apply(Apply(enemy, Action("NEXT_PHASE", None, NoEdge, nr), pick),
            Plain("NEXT_PHASE"), EmptyDict) :
        nr \in NoiseRollInputs, pick \in Picks(enemy)}

\* The PLAYER state NEXT_PHASE reaches from the CLEANUP state c.
BackToPlayer(c) == Apply(c, Plain("NEXT_PHASE"), EmptyDict)

\* USE_ROOM has just armed the self-destruct.
JustArmed ==
  /\ act.type = "USE_ROOM"
  /\ RoomType(prev.player_room) = "ENGINE"
  /\ ~prev.self_destruct_armed

\* C16: USE_ROOM in an ENGINE room with self-destruct not armed arms it
\* with destruction_timer 3; a step into CLEANUP takes 1 from a timer > 0
\* of an armed self-destruct, and sets game_over with win false when the
\* timer is then 0 and the game was not over; no other step changes the
\* timer or the armed flag; so the three CLEANUPs after arming leave 2, 1
\* and 0, and only the third ends the game.
C16_SelfDestructCountdown ==
  /\ JustArmed => state.self_destruct_armed /\ state.destruction_timer = 3
  /\ (act.type = "NEXT_PHASE" /\ prev.phase = "EVENT") =>
       /\ state.self_destruct_armed = prev.self_destruct_armed
       /\ state.destruction_timer =
            IF prev.self_destruct_armed /\ prev.destruction_timer > 0
            THEN prev.destruction_timer - 1 ELSE prev.destruction_timer
       /\ IF /\ prev.self_destruct_armed
             /\ state.destruction_timer = 0
             /\ ~prev.game_over
          THEN state.game_over /\ ~state.win
          ELSE state.game_over = prev.game_over /\ state.win = prev.win
  /\ (/\ act # NoAction
      /\ ~JustArmed
      /\ ~(act.type = "NEXT_PHASE" /\ prev.phase = "EVENT")) =>
       /\ state.self_destruct_armed = prev.self_destruct_armed
       /\ state.destruction_timer = prev.destruction_timer
  /\ (JustArmed /\ state.phase = "PLAYER") =>
       \A c1 \in AfterCleanup(Apply(state, Plain("PASS"), EmptyDict)) :
         /\ c1.destruction_timer = 2
         /\ c1.game_over = state.game_over
         /\ \A c2 \in AfterCleanup(BackToPlayer(c1)) :
              /\ c2.destruction_timer = 1
              /\ c2.game_over = state.game_over
              /\ \A c3 \in AfterCleanup(BackToPlayer(c2)) :
                   /\ c3.destruction_timer = 0
                   /\ c3.game_over
                   /\ ~state.game_over => ~c3.win

\* C16 witness: USE_ROOM has armed the self-destruct in a running game and
\* one of the third CLEANUPs after it ends the game as lost.
C16_Witness ==
  /\ JustArmed
  /\ state.phase = "PLAYER"
  /\ state.destruction_timer = 3
  /\ ~state.game_over
  /\ \E c1 \in AfterCleanup(Apply(state, Plain("PASS"), EmptyDict)) :
       \E c2 \in AfterCleanup(BackToPlayer(c1)) :
         \E c3 \in AfterCleanup(BackToPlayer(c2)) :
           c3.destruction_timer = 0 /\ c3.game_over /\ ~c3.win

\* C17: ESCAPE is in legal_actions exactly when the phase is PLAYER and the
\* player's room is an ENGINE room, and ESCAPE applied in such a state
\* returns a state with game_over and win both true.
C17_EscapeWins ==
  /\ \A list \in LegalLists(state) :
       Listed(Plain("ESCAPE"), list) <=>
         (state.phase = "PLAYER" /\ RoomType(state.player_room) = "ENGINE")
  /\ (/\ act.type = "ESCAPE"
      /\ prev.phase = "PLAYER"
      /\ RoomType(prev.player_room) = "ENGINE") =>
       state.game_over /\ state.win

\* C17 witness: ESCAPE was listed in an ENGINE room of a running game and
\* has been applied.
C17_Witness ==
  /\ act.type = "ESCAPE"
  /\ prev.phase = "PLAYER"
  /\ RoomType(prev.player_room) = "ENGINE"
  /\ ~prev.game_over
  /\ \A list \in LegalLists(prev) : Listed(Plain("ESCAPE"), list)
  /\ state.game_over /\ state.win

\* The destination choices the iteration order of board.neighbors allows in
\* the step a from s: one per intruder in the step into EVENT, none elsewhere.
OrderChoices(s, a) ==
  IF a.type = "NEXT_PHASE" /\ Cycle(s.phase) = "EVENT"
  THEN Picks(s) ELSE {EmptyDict}

\* C18: apply is a function of (state, action): the state a step returns is
\* the one every enumeration order of the neighbours gives, also when an
\* intruder has several open neighbours equally close to the player.
C18_ApplyIsFunction ==
  act # NoAction =>
    \A pick \in OrderChoices(prev, act) : state = Apply(prev, act, pick)

\* C18 witness: the step into EVENT moved an intruder that had two closer
\* neighbours, and another iteration order returns another state.
C18_Witness ==
  /\ act.type = "NEXT_PHASE"
  /\ prev.phase = "ENEMY"
  /\ \E pick \in Picks(prev) : state # Apply(prev, act, pick)

\* ---------------------------------------------------------------------------
\* Objects: the collections apply copies, writes in place and hands to next()
\* ---------------------------------------------------------------------------

\* The fields of a GameState that hold a mutable object (dict, set or list).
Collections ==
  {"fires", "noise", "room_noise", "doors", "intruders", "bag",
   "event_deck_cards"}

\* Objects are named <<"state", f>>, the object the input state holds in
\* field f, and <<"line", n>>, the object created by the statement at line n
\* of rules.py.
\*
\* The objects at the call apply(s, a): obj gives the contents of every
\* object, local the object each local name is bound to, new_state the
\* object each field of new_state holds (new_state = state, line 129).
Heap0(s) ==
  [obj |-> [o \in {<<"state", f>> : f \in Collections} |-> s[o[2]]],
   local |-> << >>,
   new_state |-> [f \in Collections |-> <<"state", f>>]]

\* A statement on collections; src is the expression it reads, one of
\* <<"state", f>>, <<"new_state", f>> and <<"local", name>>:
\*   copy   name = dict(src) | set(src)             (a new object)
\*   slice  name = src[1:]                          (a new list, the tail)
\*   new    name = {}                               (a new, empty object)
\*   share  name = src                              (the same object)
\*   write  item assignments, pop, add, remove, discard on name, which leave
\*          the object with the contents val
\*   next   new_state = new_state.next(field=name)
Stmt(op, name, src, val, line) ==
  [op |-> op, name |-> name, src |-> src, val |-> val, line |-> line]

Copy(name, src, line) == Stmt("copy", name, src, 0, line)

Write(name, val) == Stmt("write", name, << >>, val, "")

Next_(field, name) == Stmt("next", name, <<"field", field>>, 0, "")

\* The heap after the statement st.
Exec(h, st) ==
  LET from == CASE st.src[1] = "state" -> st.src
                [] st.src[1] = "new_state" -> h.new_state[st.src[2]]
                [] OTHER -> h.local[st.src[2]]
      made == <<"line", st.line>>
  IN CASE st.op = "copy" ->
            [h EXCEPT !.obj = Put(@, made, @[from]),
                      !.local = Put(@, st.name, made)]
       [] st.op = "slice" ->
            [h EXCEPT !.obj = Put(@, made, Tail(@[from])),
                      !.local = Put(@, st.name, made)]
       [] st.op = "new" ->
            [h EXCEPT !.obj = Put(@, made, st.val),
                      !.local = Put(@, st.name, made)]
       [] st.op = "share" -> [h EXCEPT !.local = Put(@, st.name, from)]
       [] st.op = "write" ->
            [h EXCEPT !.obj = Put(@, h.local[st.name], st.val)]
       [] OTHER -> [h EXCEPT !.new_state = Put(@, st.src[2], h.local[st.name])]

\* The heap after the statements stmts, in order.
RECURSIVE Run(_, _)
Run(stmts, h) ==
  IF stmts = << >> THEN h ELSE Run(Tail(stmts), Exec(h, Head(stmts)))

\* Mutation: doors is the input's own set (doors = state.doors).
PrologueSharesDoors ==
  <<Copy("old_noise", <<"state", "noise">>, "131"),
    Copy("old_room_noise", <<"state", "room_noise">>, "132"),
    Copy("new_noise", <<"local", "old_noise">>, "134"),
    Copy("new_room_noise", <<"local", "old_room_noise">>, "135"),
    Stmt("share", "doors", <<"state", "doors">>, 0, "")>>

\* Lines 131-140: the working copies of noise, room_noise and doors.
Prologue ==
  <<Copy("old_noise", <<"state", "noise">>, "131"),
    Copy("old_room_noise", <<"state", "room_noise">>, "132"),
    Copy("new_noise", <<"local", "old_noise">>, "134"),
    Copy("new_room_noise", <<"local", "old_room_noise">>, "135"),
    Copy("doors", <<"state", "doors">>, "140")>>

\* MOVE / MOVE_CAUTIOUS, lines 159-212: the noise is placed on the working
\* copies (167, 178, 181); on an encounter a copy of the intruders takes the
\* new one (201-203) and the noise of the room is popped from the working
\* copies (208, 212).  The writes leave the copies as ApplyMove has them.
MoveStatements(s, a) ==
  LET m == ApplyMove(s, a)
  IN (IF EncounterSpawn(s, a.to)
      THEN <<Copy("new_intruders", <<"new_state", "intruders">>, "201"),
             Write("new_intruders", m.intruders),
             Next_("intruders", "new_intruders")>>
      ELSE << >>)
     \o <<Write("new_noise", m.noise), Write("new_room_noise", m.room_noise)>>

\* OPEN_DOOR / CLOSE_DOOR, lines 223-236.
DoorStatements(s, a) ==
  <<Write("doors", ApplyDoor(s, a).doors), Next_("doors", "doors")>>

\* SHOOT (247-280), BURST (292-317), MELEE (326-341): a copy of the
\* intruders takes the damage.
AttackStatements(s, a) ==
  LET line == CASE a.type = "SHOOT" -> "247" [] a.type = "BURST" -> "292"
                [] OTHER -> "326"
      fires == IF a.type = "MELEE" THEN s.player_room \in DOMAIN s.intruders
               ELSE /\ s.player_room \in DOMAIN s.intruders
                    /\ s.ammo > 0
                    /\ ~s.weapon_jammed
  IN IF fires
     THEN <<Copy("new_intruders", <<"state", "intruders">>, line),
            Write("new_intruders", ActionEffect(s, a).intruders),
            Next_("intruders", "new_intruders")>>
     ELSE << >>

\* USE_ROOM in a FIRE_CONTROL room that burns, lines 386-389.
UseRoomStatements(s) ==
  IF RoomType(s.player_room) = "FIRE_CONTROL" /\ s.player_room \in s.fires
  THEN <<Copy("new_fires", <<"new_state", "fires">>, "387"),
         Write("new_fires", s.fires \ {s.player_room}),
         Next_("fires", "new_fires")>>
  ELSE << >>

\* The event card, lines 523-562; r is the state apply returns.
CardStatements(s, card, moved, r) ==
  CASE card = "NOISE_CORRIDOR" -> <<Write("new_noise", r.noise)>>
    [] card = "NOISE_ROOM" -> <<Write("new_room_noise", r.room_noise)>>
    [] card = "BAG_DEV" ->
         <<Copy("bag", <<"new_state", "bag">>, "537"), Write("bag", r.bag),
           Next_("bag", "bag")>>
    [] card = "SPAWN_FROM_BAG" ->
         IF DOMAIN s.bag # {}
         THEN <<Copy("new_bag", <<"new_state", "bag">>, "544"),
                Write("new_bag", r.bag), Next_("bag", "new_bag")>>
              \o (IF /\ SortedFirst({k \in DOMAIN s.bag : s.bag[k] > 0})
                          = "ADULT"
                     /\ s.player_room \notin DOMAIN moved
                  THEN <<Copy("intr", <<"new_state", "intruders">>, "552"),
                         Write("intr", r.intruders),
                         Next_("intruders", "intr")>>
                  ELSE << >>)
         ELSE << >>
    [] card = "FIRE_ROOM" ->
         <<Copy("new_fires", <<"new_state", "fires">>, "560"),
           Write("new_fires", r.fires), Next_("fires", "new_fires")>>
    [] OTHER -> << >>

\* NEXT_PHASE into EVENT, lines 479-580: the moved intruders are a new dict,
\* the remaining cards a new list (517), the card works on copies.
EventStatements(s, a, pick) ==
  LET r == Apply(s, a, pick)
      moved == MovedIntruders(s, pick)
  IN <<Stmt("new", "moved_intruders", << >>, EmptyDict, "479"),
       Write("moved_intruders", moved),
       Next_("intruders", "moved_intruders")>>
     \o (IF s.event_deck_cards # << >>
         THEN <<Stmt("slice", "remaining",
                     <<"new_state", "event_deck_cards">>, 0, "517"),
                Next_("event_deck_cards", "remaining")>>
              \o CardStatements(s, Head(s.event_deck_cards), moved, r)
         ELSE IF NoiseRoll(a) = "corridor"
              THEN <<Write("new_noise", r.noise)>>
              ELSE <<Write("new_room_noise", r.room_noise)>>)

\* The statements apply(s, a) runs on collections, the final snapshot
\* (606-615) last.  NOOP returns at line 127, a rejected action after the
\* prologue, both with state.next(turn).
Statements(s, a, pick) ==
  IF a.type = "NOOP" THEN << >>
  ELSE IF Rejected(s, a) THEN Prologue
  ELSE Prologue
       \o (CASE a.type \in {"MOVE", "MOVE_CAUTIOUS"} -> MoveStatements(s, a)
             [] a.type \in {"OPEN_DOOR", "CLOSE_DOOR"} -> DoorStatements(s, a)
             [] a.type \in {"SHOOT", "BURST", "MELEE"} ->
                  AttackStatements(s, a)
             [] a.type = "USE_ROOM" -> UseRoomStatements(s)
             [] a.type = "NEXT_PHASE" /\ Cycle(s.phase) = "EVENT" ->
                  EventStatements(s, a, pick)
             [] OTHER -> << >>)
       \o <<Next_("noise", "new_noise"),
            Next_("room_noise", "new_room_noise"), Next_("doors", "doors")>>

\* The collection the returned state holds in field f.  A rejected action
\* and NOOP return state.next(turn=...), which holds the input's objects.
Returned(s, a, h, f) ==
  IF a.type = "NOOP" \/ Rejected(s, a) THEN h.obj[<<"state", f>>]
  ELSE h.obj[h.new_state[f]]

\* The input state s as its holder reads it in the heap h.  GameState is a
\* frozen dataclass: its fields are not reassigned, their objects can be
\* written.
InputAfter(s, h) ==
  [s EXCEPT !.fires = h.obj[<<"state", "fires">>],
            !.noise = h.obj[<<"state", "noise">>],
            !.room_noise = h.obj[<<"state", "room_noise">>],
            !.doors = h.obj[<<"state", "doors">>],
            !.intruders = h.obj[<<"state", "intruders">>],
            !.event_deck_cards = h.obj[<<"state", "event_deck_cards">>],
            !.bag = h.obj[<<"state", "bag">>]]

\* Second actions b applied to the same input.
SecondActions ==
  {Plain("SHOOT"), Toward("MOVE", "B"), Toward("CLOSE_DOOR", "B")}

\* C19: apply never changes its input state: when apply(s, a) has run its
\* statements and returned the state of the step, every collection of s
\* (noise, room_noise, doors, intruders, fires, bag, event_deck_cards) has
\* the contents it had before, and a second action b applied to the same s
\* gives the result it gives when apply(s, a) was never called.
C19_InputUnchanged ==
  act # NoAction =>
    \A pick \in OrderChoices(prev, act) :
      Apply(prev, act, pick) = state =>
        \A h \in {Run(Statements(prev, act, pick), Heap0(prev))} :
          /\ \A f \in Collections : Returned(prev, act, h, f) = state[f]
          /\ \A input \in {InputAfter(prev, h)} :
               /\ input = prev
               /\ \A b \in SecondActions :
                    Apply(input, b, EmptyDict) = Apply(prev, b, EmptyDict)

\* C19 witness: CLOSE_DOOR added an edge to the set created at line 140,
\* which the returned state holds, and the input's doors are as before.
C19_Witness ==
  /\ act.type = "CLOSE_DOOR"
  /\ state.doors # prev.doors
  /\ LET h == Run(Statements(prev, act, EmptyDict), Heap0(prev))
     IN /\ h.new_state["doors"] = <<"line", "140">>
        /\ h.obj[<<"line", "140">>] = state.doors
        /\ h.obj[<<"state", "doors">>] = prev.doors

\* The pair is in sorted order and is an edge of the board.
CanonicalEdge(e) == StrRank[e[1]] <= StrRank[e[2]] /\ e \in BoardEdges

\* C20: in every reachable state every key of noise and every element of
\* doors is a sorted pair that is an edge of the board, so no pair is
\* present together with its reverse, and every key of intruders and
\* room_noise and every element of fires is a room of the board.
C20_CanonicalKeys ==
  /\ \A e \in DOMAIN state.noise \cup state.doors :
       /\ CanonicalEdge(e)
       /\ e[1] # e[2] => <<e[2], e[1]>> \notin DOMAIN state.noise \cup state.doors
  /\ DOMAIN state.intruders \subseteq BoardRooms
  /\ DOMAIN state.room_noise \subseteq BoardRooms
  /\ state.fires \subseteq BoardRooms

\* C20 witness: a move from B to A put its noise on the corridor (A, B), or
\* a cautious move put the noise nominated as (B, A) on (A, B).
C20_Witness ==
  /\ act.type \in MoveTypes
  /\ state.player_room # prev.player_room
  /\ \/ prev.player_room = "B" /\ act.to = "A" /\ act.type = "MOVE"
     \/ act.type = "MOVE_CAUTIOUS" /\ act.noise_edge = <<"B", "A">>
  /\ Get(state.noise, <<"A", "B">>, 0) = Get(prev.noise, <<"A", "B">>, 0) + 1
  /\ <<"B", "A">> \notin DOMAIN state.noise

\* A MOVE that moved the player and met no encounter.
QuietMove ==
  /\ act.type = "MOVE"
  /\ ~MoveRejected(prev, act)
  /\ ~(act.to \notin DOMAIN prev.intruders /\ NoisyBefore(prev, act.to))

\* C21: a successful MOVE that triggers no encounter adds 1 to exactly one
\* noise counter and changes no other: the corridor noise of the traversed
\* edge when the noise target is corridor (no noise_roll, or 'corridor'),
\* the room_noise of the destination when noise_roll is 'room', and then
\* no corridor noise.
C21_MoveNoise ==
  QuietMove =>
    LET edge == IF StrRank[prev.player_room] <= StrRank[act.to]
                THEN <<prev.player_room, act.to>>
                ELSE <<act.to, prev.player_room>>
    IN IF act.noise_roll = "room"
       THEN /\ state.noise = prev.noise
            /\ DOMAIN state.room_noise = DOMAIN prev.room_noise \cup {act.to}
            /\ \A r \in DOMAIN state.room_noise :
                 state.room_noise[r] =
                   Get(prev.room_noise, r, 0) + (IF r = act.to THEN 1 ELSE 0)
       ELSE /\ state.room_noise = prev.room_noise
            /\ DOMAIN state.noise = DOMAIN prev.noise \cup {edge}
            /\ \A e \in DOMAIN state.noise :
                 state.noise[e] =
                   Get(prev.noise, e, 0) + (IF e = edge THEN 1 ELSE 0)

\* C21 witness: a MOVE with noise_roll 'room' that met no encounter put its
\* noise on the destination room and none on a corridor.
C21_Witness ==
  /\ QuietMove
  /\ act.noise_roll = "room"
  /\ Get(state.room_noise, act.to, 0) = Get(prev.room_noise, act.to, 0) + 1
  /\ state.noise = prev.noise

\* The corridors whose noise the step raised.
Raised ==
  {e \in BoardEdges \cup DOMAIN state.noise :
     Get(state.noise, e, 0) > Get(prev.noise, e, 0)}

\* The corridor a MOVE_CAUTIOUS nominates, in sorted order; NoEdge if none.
Nominated ==
  IF Len(act.noise_edge) = 2
  THEN NormEdge(act.noise_edge[1], act.noise_edge[2]) ELSE NoEdge

\* C22: no step raises the corridor noise of an edge that is in doors in the
\* pre-state: MOVE raises only the open traversed edge; MOVE_CAUTIOUS raises
\* only a nominated noise_edge that is a board edge and not in doors, and
\* none when the nomination is absent, no board edge or closed; the step
\* into EVENT raises only an edge from the player's room to an open
\* neighbour.
C22_NoNoiseOnClosedEdges ==
  /\ Raised \cap prev.doors = {}
  /\ act.type = "MOVE" =>
       Raised \subseteq
         (IF MoveRejected(prev, act) THEN {}
          ELSE {NormEdge(prev.player_room, act.to)} \ prev.doors)
  /\ act.type = "MOVE_CAUTIOUS" =>
       /\ Raised \subseteq ({Nominated} \cap BoardEdges) \ prev.doors
       /\ (\/ Nominated = NoEdge
           \/ Nominated \notin BoardEdges
           \/ Nominated \in prev.doors) => Raised = {}
  /\ (act.type = "NEXT_PHASE" /\ prev.phase = "ENEMY") =>
       Raised \subseteq
         {NormEdge(prev.player_room, nb) :
            nb \in {n \in Neighbors(prev.player_room) :
                      NormEdge(prev.player_room, n) \notin prev.doors}}

\* C22 witness: a cautious move went through while the corridor it
\* nominated for the noise was closed, and no corridor noise was added.
C22_Witness ==
  /\ act.type = "MOVE_CAUTIOUS"
  /\ ~MoveRejected(prev, act)
  /\ act.noise_roll = None
  /\ Nominated \in prev.doors
  /\ state.noise = prev.noise

\* C23: a legal SHOOT applied with attack_deck = 0 is a miss: the
\* intruder's HP, ammo and weapon_jammed are unchanged and attack_deck
\* stays 0.
C23_EmptyDeckMiss ==
  (act.type = "SHOOT" /\ LegalAttack(prev) /\ prev.attack_deck = 0) =>
    /\ state.intruders = prev.intruders
    /\ state.ammo = prev.ammo
    /\ state.weapon_jammed = prev.weapon_jammed
    /\ state.attack_deck = 0

\* C23 witness: the SHOOT at an empty deck counted as a turn action and
\* kept the last round of ammo.
C23_Witness ==
  /\ act.type = "SHOOT"
  /\ LegalAttack(prev)
  /\ prev.attack_deck = 0
  /\ prev.ammo = 1
  /\ state.ammo = 1
  /\ state.actions_in_turn = prev.actions_in_turn + 1

\* The guard of the SHOOT and BURST branches of apply holds in s.
AttackResolves(s) == IntruderHere(s) /\ s.ammo > 0 /\ ~s.weapon_jammed

\* C24: a SHOOT or BURST takes exactly 1 HP from the intruder in the
\* player's room on hit, 2 on crit and 0 on miss or jam, changes no other
\* intruder, and removes the intruder when its HP would be <= 0; every HP
\* stored in intruders is >= 1 in every reachable state.
C24_DamageTable ==
  /\ (act.type \in {"SHOOT", "BURST"} /\ AttackResolves(prev)) =>
       OutcomeShown(AttackOutcome(prev.attack_deck), prev, state)
  /\ \A room \in DOMAIN state.intruders : state.intruders[room] >= 1

\* C24 witness: a crit on an intruder of 2 HP removed it and left the
\* intruder in another room as it was.
C24_Witness ==
  /\ act.type \in {"SHOOT", "BURST"}
  /\ AttackResolves(prev)
  /\ AttackOutcome(prev.attack_deck) = "crit"
  /\ prev.intruders[prev.player_room] = 2
  /\ prev.player_room \notin DOMAIN state.intruders
  /\ \E room \in DOMAIN prev.intruders :
       room # prev.player_room /\ Get(state.intruders, room, 0) = prev.intruders[room]

\* A SHOOT or BURST has just resolved as jam.
JustJammed ==
  /\ act.type \in {"SHOOT", "BURST"}
  /\ AttackResolves(prev)
  /\ AttackOutcome(prev.attack_deck) = "jam"

\* USE_ROOM applied in an ARMORY room.
ArmoryUsed == act.type = "USE_ROOM" /\ RoomType(prev.player_room) = "ARMORY"

\* Actions tried on the step after a jam.
AfterJamActions ==
  {Plain("SHOOT"), Plain("BURST"), Plain("MELEE"), Plain("PASS"),
   Plain("USE_ROOM"), Plain("END_PLAYER_PHASE"), Toward("MOVE", "B")}

\* C25: once a SHOOT or BURST resolves as jam, weapon_jammed is true and
\* stays true in every later state until USE_ROOM is applied in an ARMORY
\* room, which sets it to false; while it is true, SHOOT and BURST are
\* absent from legal_actions and applying them changes neither ammo,
\* attack_deck nor any intruder.
C25_JamPersists ==
  /\ JustJammed =>
       /\ state.weapon_jammed
       /\ \A b \in AfterJamActions :
            Apply(state, b, EmptyDict).weapon_jammed =
              ~(b.type = "USE_ROOM" /\ RoomType(state.player_room) = "ARMORY")
  /\ (prev.weapon_jammed /\ act # NoAction /\ ~ArmoryUsed) =>
       state.weapon_jammed
  /\ ArmoryUsed => ~state.weapon_jammed
  /\ state.weapon_jammed =>
       \A list \in LegalLists(state) :
         ~ListedType("SHOOT", list) /\ ~ListedType("BURST", list)
  /\ (prev.weapon_jammed /\ act.type \in {"SHOOT", "BURST"}) =>
       /\ state.ammo = prev.ammo
       /\ state.attack_deck = prev.attack_deck
       /\ state.intruders = prev.intruders

\* C25 witness: a shot jammed the weapon in the ARMORY room, and USE_ROOM
\* from the state reached clears the jam while a further SHOOT does not.
C25_Witness ==
  /\ JustJammed
  /\ state.weapon_jammed
  /\ RoomType(state.player_room) = "ARMORY"
  /\ ~Apply(state, Plain("USE_ROOM"), EmptyDict).weapon_jammed
  /\ Apply(state, Plain("SHOOT"), EmptyDict).intruders = state.intruders

\* end_turn for an action other than PASS whose branch ran
\* actions_in_turn += 1 on the state s: the counter reached 2.
CountEndsTurn(s) == s.actions_in_turn + 1 >= 2

\* Health h after the fire damage of an end-of-turn in room, if one ran.
AfterFire(ran, room, fires, h) ==
  IF ran /\ room \in fires /\ h > 0 THEN h - 1 ELSE h

\* C26: a MELEE with an intruder in the player's room takes 1 HP from that
\* intruder (removing it at HP <= 0) and 1 health from the player when
\* health > 0, and adds 1 to serious_wounds exactly when the health after
\* the hit is 3 or 1 and serious_wounds < 3; it needs neither ammo nor an
\* unjammed weapon; serious_wounds never exceeds 3.  (The health stored by
\* the step is the health after the hit, less the fire damage of the
\* end-of-turn when the MELEE was the second action.)
C26_Melee ==
  /\ (act.type = "MELEE" /\ IntruderHere(prev)) =>
       LET room == prev.player_room
           hp == prev.intruders[room] - 1
           hit == IF prev.health > 0 THEN prev.health - 1 ELSE prev.health
       IN /\ IF hp <= 0 THEN room \notin DOMAIN state.intruders
             ELSE Get(state.intruders, room, 0) = hp
          /\ \A other \in (DOMAIN prev.intruders \cup DOMAIN state.intruders)
                            \ {room} :
               Get(state.intruders, other, 0) = Get(prev.intruders, other, 0)
          /\ state.health = AfterFire(CountEndsTurn(prev), room, prev.fires, hit)
          /\ state.serious_wounds =
               prev.serious_wounds +
                 (IF hit \in {3, 1} /\ prev.serious_wounds < 3 THEN 1 ELSE 0)
          /\ state.ammo = prev.ammo
          /\ state.weapon_jammed = prev.weapon_jammed
  /\ state.serious_wounds <= 3

\* C26 witness: a MELEE without ammo wounded an intruder of 2 HP and brought
\* the player's health to 3 or 1, with a serious wound.
C26_Witness ==
  /\ act.type = "MELEE"
  /\ IntruderHere(prev)
  /\ prev.ammo = 0 \/ prev.weapon_jammed
  /\ prev.intruders[prev.player_room] = 2
  /\ state.intruders[prev.player_room] = 1
  /\ state.health \in {3, 1}
  /\ state.health = prev.health - 1
  /\ state.serious_wounds = prev.serious_wounds + 1

\* The step returned early: NOOP or a rejected action.
EarlyReturn == act.type = "NOOP" \/ Rejected(prev, act)

\* The end-of-turn sequence runs in the step a from s: a is PASS or brings
\* actions_in_turn to 2.
TurnEnds(s, a) ==
  a.type = "PASS" \/ ActionEffect(s, a).actions_in_turn >= 2

\* C27: the end-of-turn sequence runs in a step exactly when the action is
\* PASS or brings actions_in_turn to 2: it then takes 1 oxygen if
\* life_support_active is false and oxygen > 0, takes 1 health if the
\* player's room after the action is in fires and health > 0, and sets
\* actions_in_turn to 0; in a step where it does not run no oxygen is lost
\* and no fire damage is taken.
C27_EndOfTurn ==
  /\ state.actions_in_turn \in {0, 1}
  /\ act # NoAction =>
       IF EarlyReturn
       THEN /\ state.oxygen = prev.oxygen
            /\ state.health = prev.health
            /\ state.actions_in_turn = prev.actions_in_turn
       ELSE LET w == ActionEffect(prev, act)
            IN IF TurnEnds(prev, act)
               THEN /\ state.oxygen =
                         IF ~state.life_support_active /\ prev.oxygen > 0
                         THEN prev.oxygen - 1 ELSE prev.oxygen
                    /\ state.health =
                         AfterFire(TRUE, state.player_room, state.fires,
                                   w.health)
                    /\ state.actions_in_turn = 0
               ELSE /\ state.oxygen = prev.oxygen
                    /\ act.type \notin {"END_PLAYER_PHASE", "NEXT_PHASE"} =>
                         state.health = w.health
                    /\ state.actions_in_turn = w.actions_in_turn

\* C27 witness: a second action that is not PASS ended the turn in a burning
\* room with life support off: 1 oxygen and 1 health lost to the hazards.
C27_Witness ==
  /\ act.type \notin {"None", "NOOP", "PASS"}
  /\ ~Rejected(prev, act)
  /\ prev.actions_in_turn = 1
  /\ state.actions_in_turn = 0
  /\ state.oxygen = prev.oxygen - 1
  /\ state.player_room \in state.fires
  /\ state.health = ActionEffect(prev, act).health - 1

\* actions_in_turn after a step from s whose branch ran
\* actions_in_turn += 1: one more, or 0 when the end-of-turn reset it.
CountedTurn(s) ==
  IF CountEndsTurn(s) THEN 0 ELSE s.actions_in_turn + 1

\* C28: USE_ROOM in an ARMORY room sets ammo to ammo_max and weapon_jammed
\* to false and counts as a turn action only if ammo < ammo_max or the
\* weapon is jammed; with ammo = ammo_max and the weapon not jammed the
\* state is unchanged apart from turn and no turn action is consumed.
C28_ArmoryOnlyIfNeeded ==
  ArmoryUsed =>
    IF prev.ammo < prev.ammo_max \/ prev.weapon_jammed
    THEN /\ state.ammo = prev.ammo_max
         /\ ~state.weapon_jammed
         /\ state.actions_in_turn = CountedTurn(prev)
    ELSE state = [prev EXCEPT !.turn = @ + 1]

\* C28 witness: USE_ROOM in the ARMORY with full ammo and no jam was counted
\* as a turn action.
C28_Witness ==
  /\ ArmoryUsed
  /\ prev.ammo = prev.ammo_max
  /\ ~prev.weapon_jammed
  /\ state.actions_in_turn = CountedTurn(prev)
  /\ state.ammo = prev.ammo

\* USE_ROOM applied in a SURGERY room.
SurgeryUsed == act.type = "USE_ROOM" /\ RoomType(prev.player_room) = "SURGERY"

\* C29: USE_ROOM in a SURGERY room raises health by 1 when health < 5
\* (never above 5) and lowers serious_wounds by 1 when it is > 0, and
\* counts as a turn action exactly when one of the two changed; with
\* health = 5 and serious_wounds = 0 the state is unchanged apart from turn.
\* (When the USE_ROOM is the second action the end-of-turn of the same step
\* applies its hazards to the healed state.)
C29_Surgery ==
  /\ state.health <= 5
  /\ SurgeryUsed =>
       LET health == IF prev.health < 5 THEN prev.health + 1 ELSE prev.health
           wounds == IF prev.serious_wounds > 0 THEN prev.serious_wounds - 1
                     ELSE prev.serious_wounds
       IN IF prev.health < 5 \/ prev.serious_wounds > 0
          THEN /\ state.health =
                    AfterFire(CountEndsTurn(prev), prev.player_room, prev.fires,
                              health)
               /\ state.serious_wounds = wounds
               /\ state.actions_in_turn = CountedTurn(prev)
          ELSE state = [prev EXCEPT !.turn = @ + 1]

\* C29 witness: SURGERY healed a wounded player at health 4 to 5 and
\* cleared a serious wound, as a turn action.
C29_Witness ==
  /\ SurgeryUsed
  /\ prev.health = 4
  /\ prev.serious_wounds = 1
  /\ state.health = 5
  /\ state.serious_wounds = 0
  /\ state.actions_in_turn = prev.actions_in_turn + 1

\* END_PLAYER_PHASE was accepted: PLAYER phase, no pending action.
EnteredEnemy ==
  /\ act.type = "END_PLAYER_PHASE"
  /\ prev.phase = "PLAYER"
  /\ prev.actions_in_turn = 0

\* C30: on entering ENEMY phase the player loses exactly 1 health if an
\* intruder is in the player's room and health > 0, and none otherwise;
\* intruder_burn_last is set to the number of intruders standing in burning
\* rooms, and no intruder's HP or position changes.
C30_EnemyDamage ==
  EnteredEnemy =>
    /\ state.phase = "ENEMY"
    /\ state.health =
         IF IntruderHere(prev) /\ prev.health > 0
         THEN prev.health - 1 ELSE prev.health
    /\ state.intruder_burn_last =
         Cardinality({room \in DOMAIN prev.intruders : room \in prev.fires})
    /\ state.intruders = prev.intruders

\* C30 witness: the player entered ENEMY phase in a burning room shared with
\* an intruder: 1 health lost, one burning intruder counted.
C30_Witness ==
  /\ EnteredEnemy
  /\ IntruderHere(prev)
  /\ prev.player_room \in prev.fires
  /\ state.health = prev.health - 1
  /\ state.intruder_burn_last = 1
  /\ state.intruders = prev.intruders

\* The step entered EVENT phase.
EnteredEvent == act.type = "NEXT_PHASE" /\ prev.phase = "ENEMY"

\* The rooms within k steps of the player over open edges.
RECURSIVE WithinSteps(_, _)
WithinSteps(s, k) ==
  IF k = 0 THEN {s.player_room}
  ELSE LET near == WithinSteps(s, k - 1)
       IN near \cup
            {b \in BoardRooms :
               \E a \in near : \E e \in BoardEdges \ s.doors :
                 e = <<a, b>> \/ e = <<b, a>>}

\* The room has an open path to the player.
HasOpenPath(s, room) == room \in WithinSteps(s, Cardinality(BoardRooms))

\* Length of the shortest open path from room to the player.
ShortestOpenPath(s, room) ==
  CHOOSE k \in 0..Cardinality(BoardRooms) :
    /\ room \in WithinSteps(s, k)
    /\ \A j \in 0..(k - 1) : room \notin WithinSteps(s, j)

\* to is where the claim lets the intruder in from go: over one open edge to
\* a room one step nearer the player; the room it is in when it shares the
\* player's room or has no open path.
MovesToward(s, from, to) ==
  IF from = s.player_room \/ ~HasOpenPath(s, from)
  THEN to = from
  ELSE /\ \E e \in BoardEdges \ s.doors : e = <<from, to>> \/ e = <<to, from>>
       /\ HasOpenPath(s, to)
       /\ ShortestOpenPath(s, to) = ShortestOpenPath(s, from) - 1

\* The rooms the intruders of s occupy after moving as move says.
Occupied(s, move) == {move[room] : room \in DOMAIN s.intruders}

\* The movements of the intruders of s that agree with the rooms r holds.
\* The player's room can hold an intruder no movement brought (an event
\* card can spawn one there).
MovementsShown(s, r) ==
  {move \in [DOMAIN s.intruders -> BoardRooms] :
     /\ Occupied(s, move) \subseteq DOMAIN r.intruders
     /\ DOMAIN r.intruders \subseteq Occupied(s, move) \cup {s.player_room}}

\* C31: on entering EVENT phase every intruder that is not in the player's
\* room and has a path to the player over open edges moves across one open
\* edge to a neighbour whose shortest open-path distance to the player is
\* one less than its own; an intruder with no open path stays in its room;
\* no intruder crosses an edge that is in doors.
C31_IntrudersApproach ==
  EnteredEvent =>
    \E move \in MovementsShown(prev, state) :
      \A room \in DOMAIN prev.intruders :
        MovesToward(prev, room, move[room])

\* C31 witness: on entering EVENT one intruder stayed behind a closed door
\* while another moved a step nearer the player.
C31_Witness ==
  /\ EnteredEvent
  /\ \E room \in DOMAIN prev.intruders :
       ~HasOpenPath(prev, room) /\ room \in DOMAIN state.intruders
  /\ \E room \in DOMAIN prev.intruders :
       /\ HasOpenPath(prev, room)
       /\ ShortestOpenPath(prev, room) >= 2
       /\ room \notin DOMAIN state.intruders

\* An intruder of s stands next to the player's room across an open edge:
\* the movement brings it into the player's room.
IntruderMovesIn(s) ==
  \E room \in DOMAIN s.intruders :
    /\ room # s.player_room
    /\ \E e \in BoardEdges \ s.doors :
         e = <<room, s.player_room>> \/ e = <<s.player_room, room>>

\* C32: on entering EVENT phase the player loses 1 health from intruder
\* movement if and only if health > 0 and at least one intruder moves into
\* the player's room from another room; an intruder that was in the
\* player's room before the movement and stays there causes no damage.
C32_EventDamageOnEntryOnly ==
  EnteredEvent =>
    state.health =
      IF prev.health > 0 /\ IntruderMovesIn(prev)
      THEN prev.health - 1 ELSE prev.health

\* C32 witness: on entering EVENT the only intruder near the player was the
\* one already in the player's room; it stayed, and the player lost 1 health.
C32_Witness ==
  /\ EnteredEvent
  /\ IntruderHere(prev)
  /\ ~IntruderMovesIn(prev)
  /\ prev.health > 0
  /\ state.health = prev.health - 1
  /\ state.player_room \in DOMAIN state.intruders

\* The HPs of the intruders of s that move says end in room dest.
ArrivingHps(s, move, dest) ==
  {s.intruders[room] : room \in {r \in DOMAIN s.intruders : move[r] = dest}}

\* The highest HP among the entries of intruders, as the merge computes it
\* with max(moved_intruders.get(dest, 0), hp): never below 0.
TopHp(intruders) ==
  MaxOf({0} \cup {intruders[r] : r \in DOMAIN intruders})

\* The EVENT step draws a SPAWN_FROM_BAG card, which can add an intruder
\* after the movement.
SpawnCardDrawn(s) ==
  s.event_deck_cards # << >> /\ Head(s.event_deck_cards) = "SPAWN_FROM_BAG"

\* C33: after the EVENT movement each room holds at most one intruder entry,
\* whose HP is the maximum of the HPs of the intruders that moved into or
\* stayed in the room; the movement creates no intruder, does not raise the
\* highest HP and does not increase the number of entries.
C33_MergeKeepsMax ==
  EnteredEvent =>
    /\ \E move \in MovementsShown(prev, state) :
         /\ \A room \in DOMAIN prev.intruders :
              MovesToward(prev, room, move[room])
         /\ \A dest \in Occupied(prev, move) :
              /\ state.intruders[dest] \in ArrivingHps(prev, move, dest)
              /\ \A hp \in ArrivingHps(prev, move, dest) :
                   hp <= state.intruders[dest]
         /\ ~SpawnCardDrawn(prev) =>
              DOMAIN state.intruders = Occupied(prev, move)
    /\ ~SpawnCardDrawn(prev) =>
         /\ TopHp(state.intruders) = TopHp(prev.intruders)
         /\ Cardinality(DOMAIN state.intruders)
              <= Cardinality(DOMAIN prev.intruders)

\* C33 witness: two intruders of different HP moved into the same room and
\* left one entry with the higher HP.
C33_Witness ==
  /\ EnteredEvent
  /\ Cardinality(DOMAIN state.intruders) < Cardinality(DOMAIN prev.intruders)
  /\ \E move \in MovementsShown(prev, state) :
       \E dest \in Occupied(prev, move) :
         /\ Cardinality(ArrivingHps(prev, move, dest)) >= 2
         /\ \A room \in DOMAIN prev.intruders :
              MovesToward(prev, room, move[room])
         /\ \A hp \in ArrivingHps(prev, move, dest) :
              hp <= state.intruders[dest]

\* The step entered EVENT phase and drew a card.
CardDrawn == EnteredEvent /\ prev.event_deck_cards # << >>

\* The state fields the event card writes (the intruders apart, which the
\* movement of the same step writes too).
CardWrites(card) ==
  CASE card = "NOISE_CORRIDOR" -> {"noise"}
    [] card = "NOISE_ROOM" -> {"room_noise"}
    [] card = "BAG_DEV" -> {"bag", "bag_dev_count"}
    [] card = "SPAWN_FROM_BAG" -> {"bag"}
    [] card = "OXYGEN_LEAK" -> {"life_support_active"}
    [] card = "FIRE_ROOM" -> {"fires"}
    [] OTHER -> {}

\* The step from s to r left every field outside fields as it was, among
\* the fields an event card can write.
OnlyWrote(fields, s, r) ==
  /\ "noise" \in fields \/ r.noise = s.noise
  /\ "room_noise" \in fields \/ r.room_noise = s.room_noise
  /\ "bag" \in fields \/ r.bag = s.bag
  /\ "bag_dev_count" \in fields \/ r.bag_dev_count = s.bag_dev_count
  /\ "life_support_active" \in fields
       \/ r.life_support_active = s.life_support_active
  /\ "fires" \in fields \/ r.fires = s.fires

\* The step from s to r shows the effect of card.
CardShown(card, s, r) ==
  CASE card = "NOISE_ROOM" ->
         Get(r.room_noise, s.player_room, 0)
           = Get(s.room_noise, s.player_room, 0) + 1
    [] card = "BAG_DEV" ->
         /\ r.bag_dev_count = s.bag_dev_count + 1
         /\ Get(r.bag, "ADULT", 0) = Get(s.bag, "ADULT", 0) + 1
    [] card = "OXYGEN_LEAK" -> ~r.life_support_active
    [] card = "FIRE_ROOM" -> r.fires = s.fires \cup {s.player_room}
    [] OTHER -> TRUE

\* The states in EVENT phase of the next round, from a state e in EVENT
\* phase: NEXT_PHASE twice, PASS when an action is counted in the turn,
\* END_PLAYER_PHASE, NEXT_PHASE.
NextRoundEvents(e) ==
  LET cleanup == Apply(e, Plain("NEXT_PHASE"), EmptyDict)
      back == Apply(cleanup, Plain("NEXT_PHASE"), EmptyDict)
      player == IF back.actions_in_turn = 0 THEN back
                ELSE Apply(back, Plain("PASS"), EmptyDict)
      enemy == Apply(player, Plain("END_PLAYER_PHASE"), EmptyDict)
  IN {Apply(enemy, Plain("NEXT_PHASE"), pick) : pick \in Picks(enemy)}

\* C34: each entry into EVENT phase with a non-empty event_deck_cards
\* removes exactly the first card, applies that card's effect only, keeps
\* the remaining cards in order and sets event_deck to their number; no
\* other step changes event_deck_cards, so the cards take effect one per
\* EVENT phase in deck order and a later event_deck_cards is a suffix of an
\* earlier one.
C34_OneCardPerEvent ==
  /\ CardDrawn =>
       LET card == Head(prev.event_deck_cards)
       IN /\ state.event_deck_cards = Tail(prev.event_deck_cards)
          /\ state.event_deck = Len(state.event_deck_cards)
          /\ OnlyWrote(CardWrites(card), prev, state)
          /\ CardShown(card, prev, state)
          /\ state.event_deck_cards # << >> =>
               \A r \in NextRoundEvents(state) :
                 /\ r.event_deck_cards = Tail(state.event_deck_cards)
                 /\ r.event_deck = Len(r.event_deck_cards)
                 /\ OnlyWrote(CardWrites(Head(state.event_deck_cards)),
                              state, r)
                 /\ CardShown(Head(state.event_deck_cards), state, r)
  /\ (act # NoAction /\ ~CardDrawn) =>
       state.event_deck_cards = prev.event_deck_cards

\* C34 witness: an EVENT drew OXYGEN_LEAK from a deck of three and left the
\* other two cards in order; the EVENT of the next round draws NOISE_ROOM
\* and leaves the third.
C34_Witness ==
  /\ CardDrawn
  /\ prev.event_deck_cards = <<"OXYGEN_LEAK", "NOISE_ROOM", "FIRE_ROOM">>
  /\ state.event_deck_cards = <<"NOISE_ROOM", "FIRE_ROOM">>
  /\ state.event_deck = 2
  /\ ~state.life_support_active
  /\ state.fires = prev.fires
  /\ \E r \in NextRoundEvents(state) :
       r.event_deck_cards = <<"FIRE_ROOM">> /\ r.fires = state.fires

\* The player's room of s holds an intruder after the EVENT movement: one
\* that was there stays, one next to it over an open edge moves in.
IntruderAfterMovement(s) == IntruderHere(s) \/ IntruderMovesIn(s)

\* token is the alphabetically first name of bag with a count > 0.
FirstToken(bag, token) ==
  /\ token \in DOMAIN bag
  /\ bag[token] > 0
  /\ \A k \in DOMAIN bag : bag[k] > 0 => StrRank[token] <= StrRank[k]

\* C35: a SPAWN_FROM_BAG card with a non-empty bag takes the alphabetically
\* first token name with a count > 0, lowers its count by 1 and removes the
\* key at 0, leaves every other bag entry unchanged, and adds an intruder
\* with 1 HP in the player's room exactly when the token is ADULT and the
\* player's room holds no intruder after the movement; with an empty bag the
\* card changes neither bag nor intruders.
C35_SpawnFromBag ==
  (CardDrawn /\ SpawnCardDrawn(prev)) =>
    IF DOMAIN prev.bag = {}
    THEN /\ state.bag = prev.bag
         /\ state.player_room \in DOMAIN state.intruders
              <=> IntruderAfterMovement(prev)
    ELSE \E token \in DOMAIN prev.bag :
           /\ FirstToken(prev.bag, token)
           /\ DOMAIN state.bag =
                (DOMAIN prev.bag) \ (IF prev.bag[token] = 1 THEN {token}
                                     ELSE {})
           /\ \A k \in DOMAIN state.bag :
                state.bag[k] = prev.bag[k] - (IF k = token THEN 1 ELSE 0)
           /\ IF token = "ADULT" /\ ~IntruderAfterMovement(prev)
              THEN Get(state.intruders, state.player_room, 0) = 1
              ELSE state.player_room \in DOMAIN state.intruders
                     <=> IntruderAfterMovement(prev)

\* C35 witness: the card drew ADULT from a bag holding ADULT twice and LARVA
\* once, left ADULT once and LARVA once, and put a 1 HP intruder in the
\* player's empty room.
C35_Witness ==
  /\ CardDrawn
  /\ SpawnCardDrawn(prev)
  /\ Get(prev.bag, "ADULT", 0) = 2
  /\ Get(state.bag, "ADULT", 0) = 1
  /\ Get(state.bag, "LARVA", 0) = Get(prev.bag, "LARVA", 0)
  /\ ~IntruderAfterMovement(prev)
  /\ Get(state.intruders, state.player_room, 0) = 1

\* The step entered EVENT phase with no card to draw.
FallbackTaken == EnteredEvent /\ prev.event_deck_cards = << >>

\* The neighbours of the player's room of s across an open edge.
OpenNeighbours(s) ==
  {n \in BoardRooms :
     \E e \in BoardEdges \ s.doors :
       e = <<n, s.player_room>> \/ e = <<s.player_room, n>>}

\* noise is the map before with 1 added to the counter of key.
OneAdded(before, key, noise) ==
  /\ DOMAIN noise = DOMAIN before \cup {key}
  /\ \A k \in DOMAIN noise :
       noise[k] = Get(before, k, 0) + (IF k = key THEN 1 ELSE 0)

\* The fallback noise of the step is on the edge to the smallest open
\* neighbour, or on the player's room when noise_roll is 'room'.
FallbackNoiseShown ==
  IF act.noise_roll = "room"
  THEN /\ state.noise = prev.noise
       /\ OneAdded(prev.room_noise, prev.player_room, state.room_noise)
  ELSE /\ state.room_noise = prev.room_noise
       /\ \E n \in OpenNeighbours(prev) :
            /\ \A o \in OpenNeighbours(prev) : StrRank[n] <= StrRank[o]
            /\ OneAdded(prev.noise, NormEdge(prev.player_room, n),
                        state.noise)

\* C36, as amended: on entering EVENT phase with an empty event_deck_cards,
\* event_deck becomes max(event_deck - 1, 0); when noise_roll is 'room' the
\* room_noise of the player's room goes up by 1; otherwise the corridor
\* noise of the edge to the smallest open neighbour of the player's room
\* goes up by 1 if the room has an open neighbour, and no noise is placed
\* if every edge of the player's room is closed; no other counter changes.
C36_FallbackNoise ==
  FallbackTaken =>
    /\ state.event_deck = Max(prev.event_deck - 1, 0)
    /\ IF act.noise_roll # "room" /\ OpenNeighbours(prev) = {}
       THEN state.noise = prev.noise /\ state.room_noise = prev.room_noise
       ELSE FallbackNoiseShown

\* C36, as stated: on entering EVENT phase with an empty event_deck_cards,
\* event_deck becomes max(event_deck - 1, 0) and exactly one noise counter
\* goes up by 1: the corridor noise of the edge to the smallest open
\* neighbour of the player's room, or the room_noise of the player's room
\* when noise_roll is 'room'.
C36_FallbackNoiseAsStated ==
  FallbackTaken =>
    /\ state.event_deck = Max(prev.event_deck - 1, 0)
    /\ FallbackNoiseShown

\* C36 witness: the fallback of a player shut in by closed doors placed
\* no noise and left event_deck at 0.
C36_Witness ==
  /\ FallbackTaken
  /\ OpenNeighbours(prev) = {}
  /\ act.noise_roll = None
  /\ prev.event_deck = 0
  /\ state.event_deck = 0
  /\ state.noise = prev.noise
  /\ state.room_noise = prev.room_noise

\* ---------------------------------------------------------------------------
\* Games played with the actions legal_actions lists
\* ---------------------------------------------------------------------------

\* The actions Rules.legal_actions(s) lists: the elements of the list, which
\* are the same in every iteration order of the neighbours.
ListedActions(s) ==
  LET list == CHOOSE l \in LegalLists(s) : TRUE
  IN {list[i] : i \in DOMAIN list}

\* A game starts in PLAYER phase with no action taken in the turn.
LegalInit ==
  /\ board \in Boards
  /\ state \in {s \in InitStates : /\ OnBoard(s, board)
                                   /\ s.phase = "PLAYER"
                                   /\ s.actions_in_turn = 0}
  /\ prev = state
  /\ act = NoAction

\* The listed actions of the given types.
ListedOfType(types) == {a \in ListedActions(state) : a.type \in types}

\* The game has steps left to play.
StepsLeft == state.turn < MaxLegalTurn

\* Environment.step(a)
LegalStep(a) ==
  \E pick \in OrderChoices(state, a) :
    /\ state' = Apply(state, a, pick)
    /\ prev' = state
    /\ act' = a
    /\ board' = board

LegalMove ==
  StepsLeft /\ \E a \in ListedOfType(MoveTypes) : LegalStep(a)

LegalDoor ==
  StepsLeft /\ \E a \in ListedOfType(DoorTypes) : LegalStep(a)

LegalCombat ==
  StepsLeft
    /\ \E a \in ListedOfType({"MELEE", "SHOOT", "BURST"}) : LegalStep(a)

LegalUseRoom ==
  StepsLeft /\ \E a \in ListedOfType({"USE_ROOM"}) : LegalStep(a)

LegalEscape ==
  StepsLeft /\ \E a \in ListedOfType({"ESCAPE"}) : LegalStep(a)

LegalPass ==
  StepsLeft /\ \E a \in ListedOfType({"PASS"}) : LegalStep(a)

LegalEndPlayerPhase ==
  StepsLeft /\ \E a \in ListedOfType({"END_PLAYER_PHASE"}) : LegalStep(a)

LegalNextPhase ==
  StepsLeft /\ \E a \in ListedOfType({"NEXT_PHASE"}) : LegalStep(a)

LegalNoop ==
  StepsLeft /\ \E a \in ListedOfType({"NOOP"}) : LegalStep(a)

LegalNext ==
  \/ LegalMove
  \/ LegalDoor
  \/ LegalCombat
  \/ LegalUseRoom
  \/ LegalEscape
  \/ LegalPass
  \/ LegalEndPlayerPhase
  \/ LegalNextPhase
  \/ LegalNoop
  \/ DoReset

LegalSpec == LegalInit /\ [][LegalNext]_vars

\* C37: in every state reached from a PLAYER-phase state with
\* actions_in_turn = 0 by listed actions, actions_in_turn is 0 or 1 (the
\* step in which it would reach 2 resets it to 0), and it is 0 whenever the
\* phase is ENEMY, EVENT or CLEANUP.
C37_ActionsInTurn ==
  /\ state.actions_in_turn \in {0, 1}
  /\ state.phase \in {"ENEMY", "EVENT", "CLEANUP"} => state.actions_in_turn = 0
  /\ (act # NoAction /\ prev.actions_in_turn = 1 /\ ~EarlyReturn) =>
       state.actions_in_turn =
         IF act.type = "PASS"
              \/ ActionEffect(prev, act).actions_in_turn >= 2
         THEN 0 ELSE 1

\* C37 witness: after one action the player ended the turn with a second
\* one, the counter went back to 0, and END_PLAYER_PHASE then entered ENEMY
\* phase.
C37_Witness ==
  /\ act.type = "END_PLAYER_PHASE"
  /\ state.phase = "ENEMY"
  /\ state.turn = 3
  /\ state.actions_in_turn = 0

\* The step entered CLEANUP with self-destruct armed and the timer at 0
\* after the decrement.
TimerRanOut ==
  /\ act.type = "NEXT_PHASE"
  /\ prev.phase = "EVENT"
  /\ state.self_destruct_armed
  /\ state.destruction_timer = 0

\* The state s with the terminal flags cleared.
NotOver(s) == [s EXCEPT !.game_over = FALSE, !.win = FALSE]

\* The step from prev did everything it does from the same state of a game
\* that is not over, the terminal flags left aside.
AcceptedAsBefore ==
  \E pick \in OrderChoices(prev, act) :
    NotOver(state) = NotOver(Apply(NotOver(prev), act, pick))

\* C38: game_over never goes from true to false; it becomes true only in a
\* step that applies ESCAPE or that enters CLEANUP with self-destruct armed
\* and the timer at 0 after the decrement; no step in which health or oxygen
\* reaches 0 sets it for that reason; and a step from a state with game_over
\* true changes the state as it does when the game is not over.
C38_GameOver ==
  act # NoAction =>
    /\ prev.game_over => state.game_over
    /\ (~prev.game_over /\ state.game_over) =>
         (act.type = "ESCAPE" \/ TimerRanOut)
    /\ (/\ \/ prev.health > 0 /\ state.health = 0
           \/ prev.oxygen > 0 /\ state.oxygen = 0
        /\ act.type # "ESCAPE"
        /\ ~TimerRanOut) =>
         state.game_over = prev.game_over
    /\ prev.game_over =>
         /\ state.turn = prev.turn + 1
         /\ AcceptedAsBefore

\* C38 witness: in a game that is over the player moved to another room, and
\* the game is still over.
C38_Witness ==
  /\ prev.game_over
  /\ act.type = "MOVE"
  /\ state.player_room # prev.player_room
  /\ state.game_over

\* C39: once game_over is true the value of win stays the same under every
\* listed action: a game lost by self-destruct does not become a win, and a
\* game won by ESCAPE does not become a loss when the armed timer runs out.
C39_OutcomeStable ==
  (act # NoAction /\ prev.game_over) =>
    /\ state.game_over
    /\ state.win = prev.win

\* C39 witness: in a game lost by self-destruct the player, in the ENGINE
\* room in PLAYER phase, took the listed ESCAPE and the game is now won.
C39_Witness ==
  /\ prev.game_over
  /\ ~prev.win
  /\ prev.self_destruct_armed
  /\ prev.destruction_timer = 0
  /\ act.type = "ESCAPE"
  /\ state.game_over
  /\ state.win

\* Every entry of the bag has a count of at least 1.
PositiveCounts(bag) == \A k \in DOMAIN bag : bag[k] >= 1

\* The EVENT step draws a BAG_DEV card.
BagDevCardDrawn(s) ==
  s.event_deck_cards # << >> /\ Head(s.event_deck_cards) = "BAG_DEV"

\* C40: every entry of bag has a count >= 1 in every state; a BAG_DEV card
\* adds 1 to ADULT and 1 to bag_dev_count; a SPAWN_FROM_BAG card on a
\* non-empty bag finds a token with a count > 0 and removes its key exactly
\* when its count reaches 0; no other step changes the bag.
C40_BagPositive ==
  /\ PositiveCounts(state.bag)
  /\ (CardDrawn /\ BagDevCardDrawn(prev)) =>
       /\ state.bag_dev_count = prev.bag_dev_count + 1
       /\ DOMAIN state.bag = DOMAIN prev.bag \cup {"ADULT"}
       /\ \A k \in DOMAIN state.bag :
            state.bag[k] =
              Get(prev.bag, k, 0) + (IF k = "ADULT" THEN 1 ELSE 0)
  /\ (CardDrawn /\ SpawnCardDrawn(prev) /\ DOMAIN prev.bag # {}) =>
       \E token \in DOMAIN prev.bag :
         /\ FirstToken(prev.bag, token)
         /\ token \in DOMAIN state.bag <=> prev.bag[token] > 1
         /\ Get(state.bag, token, 0) = prev.bag[token] - 1
  /\ (act # NoAction
      /\ ~(CardDrawn /\ (BagDevCardDrawn(prev) \/ SpawnCardDrawn(prev)))) =>
       /\ state.bag = prev.bag
       /\ state.bag_dev_count = prev.bag_dev_count

\* C40 witness: SPAWN_FROM_BAG drew the last ADULT token and the bag is
\* empty, the ADULT key removed.
C40_Witness ==
  /\ CardDrawn
  /\ SpawnCardDrawn(prev)
  /\ prev.bag = ("ADULT" :> 1)
  /\ state.bag = EmptyDict

====
